---------------------------- MODULE Spec2Model ----------------------------
(***************************************************************************)
(* Model of eloyhere/semantic-cpp: the ThreadPool / Promise task pool of   *)
(* semantic.cpp and the collect paths of Collectable, OrderedCollectable   *)
(* (semantic.cpp) and collector::Collector (semantic.h).                   *)
(***************************************************************************)
EXTENDS Integers, Sequences, FiniteSets, TLC

(***************************************************************************)
(* Bounds of the model.                                                    *)
(***************************************************************************)
\* workerCount handed to ThreadPool::ThreadPool
NumWorkers == 3
\* closures handed to ThreadPool::submit by the calling threads
MaxTasks == 3
\* shutdown() calls per calling thread
MaxShutdowns == 2

Callers == {"c1", "c2"}
WorkerIds == 1..NumWorkers
TaskKinds == {"ok", "throws"}

VARIABLES
    stop,        \* ThreadPool::stop
    taskQueue,   \* ThreadPool::taskQueue, the queued wrappers in FIFO order
    workers,     \* ThreadPool::workers, the vector of worker threads
    wstate,      \* position of every worker thread in its loop
    joins,       \* number of join() calls made on every worker thread
    tasks,       \* one record per closure handed to submit
    callers,     \* position of every calling thread
    terminated,  \* std::terminate was called: the process is gone
    call         \* the terminal operation the main thread is executing

vars == <<stop, taskQueue, workers, wstate, joins, tasks, callers, terminated, call>>

(***************************************************************************)
(* Promise<T, E>::Promise(Supplier<T> task): the constructor calls task()  *)
(* itself, stores the value or the exception, sets the state and runs      *)
(* completionAction (completed = true).  resolveCallback, rejectCallback   *)
(* and finallyCallback are only tested, never assigned: they stay empty.   *)
(***************************************************************************)
PromiseConstruct(kind) ==
    [ranTask |-> TRUE,
     state |-> IF kind = "throws" THEN "rejected" ELSE "fullfilled",
     completed |-> TRUE,
     resolveCallback |-> "empty",
     rejectCallback |-> "empty"]

(***************************************************************************)
(* Calling a std::function member of the promise: an empty one throws      *)
(* std::bad_function_call.                                                 *)
(***************************************************************************)
InvokeCallback(callback) == IF callback = "empty" THEN "throws" ELSE "returns"

(***************************************************************************)
(* The wrapper pushed by submit, after task() has run on the worker:       *)
(*   try { result = task(); promise.resolveCallback(result); }             *)
(*   catch (...) { promise.rejectCallback(current_exception()); }          *)
(* "escapes" when an exception leaves the wrapper.                         *)
(***************************************************************************)
WrapperDeliver(promise, taskOutcome) ==
    LET inTry == IF taskOutcome = "throws" THEN "throws"
                 ELSE InvokeCallback(promise.resolveCallback)
    IN IF inTry = "returns" THEN "returns"
       ELSE IF InvokeCallback(promise.rejectCallback) = "returns" THEN "returns"
       ELSE "escapes"

TaskOutcome(kind) == IF kind = "throws" THEN "throws" ELSE "returns"

(***************************************************************************)
(* No terminal operation has been called yet.                              *)
(***************************************************************************)
NoCall ==
    [op |-> "none", col |-> [name |-> "none", pred |-> {}], elems |-> <<>>,
     k |-> 0, withInterrupter |-> FALSE, pc |-> "none", i |-> 0, j |-> 0,
     shouldInterrupt |-> FALSE, partials |-> <<>>, finalResult |-> 0,
     result |-> 0, visits |-> <<>>, completed |-> {}, outerState |-> "pending"]

(***************************************************************************)
(* Inputs of the terminal operations.                                      *)
(***************************************************************************)
\* longest element sequence
MaxLen == 3
\* elements are 1..MaxValue
MaxValue == 2
\* largest concurrency degree
MaxK == 3

Values == 1..MaxValue
RECURSIVE SeqsUpTo(_)
SeqsUpTo(n) ==
    IF n = 0 THEN {<<>>}
    ELSE SeqsUpTo(n - 1) \cup [1..n -> Values]
Inputs == SeqsUpTo(MaxLen)

(***************************************************************************)
(* The collectors the terminal methods of semantic.cpp hand to collect: a  *)
(* name and, for the match methods, the set of elements satisfying the     *)
(* caller's predicate.                                                     *)
(***************************************************************************)
MatchNames == {"anyMatch", "allMatch", "noneMatch"}
FullNames == {"count", "sum", "toSet", "toVector"}
Collectors ==
    {[name |-> n, pred |-> {}] : n \in FullNames}
        \cup {[name |-> n, pred |-> P] : n \in MatchNames, P \in SUBSET Values}

(***************************************************************************)
(* The collectors of findFirst and findAny.  Both capture by reference an  *)
(* atomic found that lives in the frame of the terminal method.  findAny   *)
(* takes an element when randomly<short>(0, 100) > 49: pred is the set of  *)
(* elements for which the draw of this call comes out above 49.            *)
(***************************************************************************)
FindCollectors ==
    {[name |-> "findFirst", pred |-> {}, found |-> FALSE]}
        \cup {[name |-> "findAny", pred |-> P, found |-> FALSE] : P \in SUBSET Values}

\* the collector as a partition lambda sees it: found as the earlier
\* traversals of this call left it, which is as they left the interrupt flag
WithFound(col, flag) ==
    IF col.name \in {"findFirst", "findAny"} THEN [col EXCEPT !.found = flag] ELSE col

\* the functions handed to map and to the methods of Statistics
Mapper(f, element) ==
    CASE f = "times10" -> element * 10
      [] f = "plus1" -> element + 1
      [] f = "modulo2" -> element % 2

\* a std::map<D, Module> is a function from its keys to their counts;
\* frequencies[key] += n inserts the key with count 0 first when it is absent
Increment(frequencies, key, n) ==
    IF key \in DOMAIN frequencies
    THEN [frequencies EXCEPT ![key] = @ + n]
    ELSE [d \in DOMAIN frequencies \cup {key} |->
            IF d = key THEN n ELSE frequencies[d]]

\* the combiner of frequency: for each pair of frequencies2,
\* frequencies1[pair.first] += pair.second
RECURSIVE AddFrequencies(_, _, _)
AddFrequencies(frequencies1, frequencies2, keys) ==
    IF keys = {} THEN frequencies1
    ELSE LET key == CHOOSE d \in keys : \A other \in keys : d <= other
         IN  AddFrequencies(Increment(frequencies1, key, frequencies2[key]),
                            frequencies2, keys \ {key})

\* the identity lambdas of count, reduce(0, +), toSet, toVector and the match methods
Identity(col) ==
    CASE col.name = "count" -> 0
      [] col.name = "sum" -> 0
      [] col.name = "toSet" -> {}
      [] col.name = "toVector" -> <<>>
      [] col.name = "anyMatch" -> FALSE
      [] col.name = "allMatch" -> TRUE
      [] col.name = "noneMatch" -> TRUE
      [] col.name = "findFirst" -> <<>>
      [] col.name = "findAny" -> <<>>
      [] col.name = "frequency" -> <<>>

\* the interrupter lambdas: predicate(element), !predicate(element), or false;
\* findFirst's returns found.load(), which the accumulator call that precedes
\* it has set; findAny's returns found.load() too, which is set when found was
\* set before this traversal began or the preceding accumulator call drew > 49
Interrupter(col, element) ==
    CASE col.name = "anyMatch" -> element \in col.pred
      [] col.name = "allMatch" -> element \notin col.pred
      [] col.name = "noneMatch" -> element \in col.pred
      [] col.name = "findFirst" -> TRUE
      [] col.name = "findAny" -> col.found \/ element \in col.pred
      [] OTHER -> FALSE

\* the accumulator lambdas
Accumulator(col, acc, element) ==
    CASE col.name = "count" -> acc + 1
      [] col.name = "sum" -> acc + element
      [] col.name = "toSet" -> acc \cup {element}
      [] col.name = "toVector" -> Append(acc, element)
      [] col.name = "anyMatch" -> acc \/ element \in col.pred
      [] col.name = "allMatch" -> acc /\ element \in col.pred
      [] col.name = "noneMatch" -> acc /\ element \notin col.pred
      [] col.name = "findFirst" -> IF acc = <<>> THEN <<element>> ELSE acc
      [] col.name = "findAny" ->
            IF acc = <<>> /\ element \in col.pred THEN <<element>> ELSE acc
      [] col.name = "frequency" -> Increment(acc, Mapper(col.f, element), 1)

\* the combiner lambdas
Combiner(col, a, b) ==
    CASE col.name = "count" -> a + b
      [] col.name = "sum" -> a + b
      [] col.name = "toSet" -> a \cup b
      [] col.name = "toVector" -> a \o b
      [] col.name = "anyMatch" -> a \/ b
      [] col.name = "allMatch" -> a /\ b
      [] col.name = "noneMatch" -> a /\ b
      [] col.name = "findFirst" -> IF a # <<>> THEN a ELSE b
      [] col.name = "findAny" -> IF a # <<>> THEN a ELSE b
      [] col.name = "frequency" -> AddFrequencies(a, b, DOMAIN b)

\* the finisher lambdas: all return their argument
Finisher(col, acc) == acc

(***************************************************************************)
(* The accept and interrupt lambdas Collectable::collect hands to the      *)
(* generator.  st = [result, shouldInterrupt].                             *)
(***************************************************************************)
GenAccept(col, withInterrupter, st, element) ==
    IF withInterrupter
    THEN IF ~st.shouldInterrupt
         THEN [result |-> Accumulator(col, st.result, element),
               shouldInterrupt |-> Interrupter(col, element)]
         ELSE st
    ELSE [st EXCEPT !.result = Accumulator(col, st.result, element)]

GenPredicate(withInterrupter, st) == withInterrupter /\ st.shouldInterrupt

(***************************************************************************)
(* The generator of from(const std::vector<E>&): for each index, break     *)
(* when the interrupt predicate holds, else accept(vector[index], index).  *)
(***************************************************************************)
RECURSIVE FromVector(_, _, _, _, _)
FromVector(vector, index, col, withInterrupter, st) ==
    IF index > Len(vector) THEN st
    ELSE IF GenPredicate(withInterrupter, st) THEN st
    ELSE FromVector(vector, index + 1, col, withInterrupter,
                    GenAccept(col, withInterrupter, st, vector[index]))

(***************************************************************************)
(* Collectable<E>::collect, branch concurrent < 2 (both overloads).        *)
(***************************************************************************)
CollectableSequential(col, withInterrupter, elems) ==
    Finisher(col, FromVector(elems, 1, col, withInterrupter,
                [result |-> Identity(col), shouldInterrupt |-> FALSE]).result)

(***************************************************************************)
(* The partition lambda of Collectable<E>::collect: its own identity, the  *)
(* whole generator, the interrupt flag shared by reference.                *)
(***************************************************************************)
CollectableInner(col, withInterrupter, elems, flag) ==
    FromVector(elems, 1, col, withInterrupter,
               [result |-> Identity(col), shouldInterrupt |-> flag])

(***************************************************************************)
(* OrderedCollectable<E>::collect, branch concurrent < 2, over the         *)
(* materialized container in timestamp order.                              *)
(***************************************************************************)
RECURSIVE OrderedLoop(_, _, _, _, _)
OrderedLoop(container, index, col, withInterrupter, st) ==
    IF index > Len(container) THEN st
    ELSE IF withInterrupter /\ st.shouldInterrupt THEN st
    ELSE OrderedLoop(container, index + 1, col, withInterrupter,
            [result |-> Accumulator(col, st.result, container[index]),
             shouldInterrupt |-> withInterrupter /\ Interrupter(col, container[index])])

OrderedSequential(col, withInterrupter, container) ==
    Finisher(col, OrderedLoop(container, 1, col, withInterrupter,
                [result |-> Identity(col), shouldInterrupt |-> FALSE]).result)

(***************************************************************************)
(* The index range of partition i of OrderedCollectable<E>::collect:       *)
(* localBegin = begin + i * (size / concurrent), localEnd = end for the    *)
(* last partition, else begin + (i + 1) * (size / concurrent).             *)
(***************************************************************************)
LocalBegin(size, concurrent, i) == i * (size \div concurrent)

\* LocalEnd without the special case of the last partition
LocalEnd_NoRemainder(size, concurrent, i) == (i + 1) * (size \div concurrent)

LocalEnd(size, concurrent, i) ==
    IF i = concurrent - 1 THEN size ELSE (i + 1) * (size \div concurrent)

(***************************************************************************)
(* The partition lambda of OrderedCollectable<E>::collect over the         *)
(* positions index .. last (1-based).  st = [result, interrupted, visited] *)
(***************************************************************************)
RECURSIVE OrderedPart(_, _, _, _, _, _)
OrderedPart(container, index, last, col, withInterrupter, st) ==
    IF index > last THEN st
    ELSE LET folded == [result |-> Accumulator(col, st.result, container[index]),
                        interrupted |-> st.interrupted,
                        visited |-> st.visited \cup {index}]
         IN IF withInterrupter /\ Interrupter(col, container[index])
            THEN [folded EXCEPT !.interrupted = TRUE]
            ELSE OrderedPart(container, index + 1, last, col, withInterrupter, folded)

OrderedPartition(col, withInterrupter, container, concurrent, i) ==
    OrderedPart(container,
                LocalBegin(Len(container), concurrent, i) + 1,
                LocalEnd(Len(container), concurrent, i),
                col, withInterrupter,
                [result |-> Identity(col), interrupted |-> FALSE, visited |-> {}])

(***************************************************************************)
(* The collectors of namespace collector in semantic.h.  A std::string is  *)
(* the sequence of its characters.                                         *)
(***************************************************************************)
HMatchNames == {"useAnyMatch", "useAllMatch", "useNoneMatch"}
HFullNames == {"useCount", "useJoin"}
HCollectors ==
    {[name |-> n, pred |-> {}] : n \in HFullNames}
        \cup {[name |-> n, pred |-> P] : n \in HMatchNames, P \in SUBSET Values}

\* std::to_string of an element
to_string(element) ==
    CASE element = 0 -> "0" [] element = 1 -> "1" [] element = 2 -> "2"
      [] element = 3 -> "3" [] element = 4 -> "4" [] OTHER -> "?"

HIdentity(col) ==
    CASE col.name = "useCount" -> 0
      [] col.name = "useJoin" -> <<>>
      [] col.name = "useAnyMatch" -> FALSE
      [] col.name = "useAllMatch" -> TRUE
      [] col.name = "useNoneMatch" -> TRUE
      [] col.name = "useFindFirst" -> <<>>
      [] col.name = "useSummate" -> 0

\* Collector::full installs an interrupt that returns false; the match
\* collectors install one that returns the accumulator, useFindFirst one
\* that returns the optional accumulator (true when it holds a value)
HInterrupt(col, acc, element, index) ==
    IF col.name \in HMatchNames THEN acc
    ELSE IF col.name = "useFindFirst" THEN acc # <<>>
    ELSE FALSE

HAccumulator(col, acc, element, index) ==
    CASE col.name = "useCount" -> acc + 1
      [] col.name = "useJoin" -> acc \o <<to_string(element), ",">>
      [] col.name = "useAnyMatch" -> acc \/ element \in col.pred
      [] col.name = "useAllMatch" -> acc /\ element \in col.pred
      [] col.name = "useNoneMatch" -> acc /\ element \notin col.pred
      [] col.name = "useFindFirst" ->
            IF acc = <<>> /\ index = 0 THEN <<element>> ELSE acc
      [] col.name = "useSummate" -> acc + element

\* the combiners of useCount and useSummate: a + b
HCombiner(col, a, b) == a + b

\* useJoin: "[" + a.substr(0, a.size() - 1) + "]"; the others return a
HFinisher(col, acc) ==
    IF col.name = "useJoin"
    THEN <<"[">> \o SubSeq(acc, 1, Len(acc) - 1) \o <<"]">>
    ELSE acc

(***************************************************************************)
(* The generator of from(std::vector<E>) in semantic.h driven by the       *)
(* accept and interrupt lambdas of Collector::collect(generator, 1): index *)
(* is declared 0 and never advanced.                                       *)
(***************************************************************************)
RECURSIVE HFromVector(_, _, _, _)
HFromVector(container, position, col, acc) ==
    IF position > Len(container) THEN acc
    ELSE IF HInterrupt(col, acc, container[position], 0) THEN acc
    ELSE HFromVector(container, position + 1, col,
                     HAccumulator(col, acc, container[position], 0))

(***************************************************************************)
(* Collector::collect(const Generator<E>&, concurrent), concurrent < 2:    *)
(* runs the generator and returns the accumulator.                         *)
(***************************************************************************)
CollectorCollectGenerator(col, container) ==
    HFromVector(container, 1, col, HIdentity(col))

(***************************************************************************)
(* Collector::collect(const std::vector<E>&, concurrent), concurrent < 2.  *)
(***************************************************************************)
RECURSIVE HVectorLoop(_, _, _, _)
HVectorLoop(container, position, col, acc) ==
    IF position > Len(container) THEN acc
    ELSE IF HInterrupt(col, acc, container[position], position - 1) THEN acc
    ELSE HVectorLoop(container, position + 1, col,
                     HAccumulator(col, acc, container[position], position - 1))

CollectorCollectVector(col, container) ==
    IF container = <<>> THEN HFinisher(col, HIdentity(col))
    ELSE HFinisher(col, HVectorLoop(container, 1, col, HIdentity(col)))

Init ==
    /\ stop = FALSE
    /\ taskQueue = <<>>
    /\ workers = [i \in 1..NumWorkers |-> i]
    /\ wstate = [w \in WorkerIds |-> [pc |-> "waiting", task |-> 0, outcome |-> "none"]]
    /\ joins = [w \in WorkerIds |-> 0]
    /\ tasks = <<>>
    /\ callers = [c \in Callers |-> [pc |-> "idle", task |-> 0, joinIdx |-> 0, shutdowns |-> 0]]
    /\ terminated = FALSE
    /\ call = NoCall

(***************************************************************************)
(* ThreadPool::submit, first statement: Promise<T, E> promise(task).       *)
(***************************************************************************)
SubmitConstruct(c, kind) ==
    /\ ~terminated
    /\ callers[c].pc = "idle"
    /\ Len(tasks) < MaxTasks
    /\ LET promise == PromiseConstruct(kind)
       IN tasks' = Append(tasks,
                [kind |-> kind,
                 promise |-> promise,
                 stopAtCall |-> stop,
                 status |-> "constructed",
                 onSubmitter |-> IF promise.ranTask THEN 1 ELSE 0,
                 onWorker |-> 0,
                 pops |-> 0,
                 got |-> "none",
                 part |-> 0,
                 frame |-> "none"])
    /\ callers' = [callers EXCEPT ![c].pc = "submit", ![c].task = Len(tasks) + 1]
    /\ UNCHANGED <<stop, taskQueue, workers, wstate, joins, terminated, call>>

(***************************************************************************)
(* ThreadPool::submit, the locked block: throw on stop, else push the      *)
(* wrapper holding a copy of the promise; then notify_one and return.      *)
(***************************************************************************)
SubmitEnqueue(c) ==
    /\ ~terminated
    /\ callers[c].pc = "submit"
    /\ LET t == callers[c].task
       IN IF stop
          THEN /\ tasks' = [tasks EXCEPT ![t].status = "refused"]
               /\ UNCHANGED taskQueue
          ELSE /\ taskQueue' = Append(taskQueue, [id |-> t, promise |-> tasks[t].promise])
               /\ tasks' = [tasks EXCEPT ![t].status = "queued"]
    /\ callers' = [callers EXCEPT ![c].pc = "idle", ![c].task = 0]
    /\ UNCHANGED <<stop, workers, wstate, joins, terminated, call>>

(***************************************************************************)
(* Promise<T, E>::getResult on the promise returned by submit.             *)
(***************************************************************************)
GetResult(c, t) ==
    /\ ~terminated
    /\ callers[c].pc = "idle"
    /\ t \in 1..Len(tasks)
    /\ tasks[t].status = "queued"
    /\ tasks[t].got = "none"
    /\ tasks[t].promise.completed
    /\ tasks' = [tasks EXCEPT ![t].got =
                    IF tasks[t].promise.state = "rejected" THEN "exception" ELSE "value"]
    /\ UNCHANGED <<stop, taskQueue, workers, wstate, joins, callers, terminated, call>>

(***************************************************************************)
(* ThreadPool::shutdown (also run by ~ThreadPool): the locked block.       *)
(***************************************************************************)
ShutdownBegin(c) ==
    /\ ~terminated
    /\ callers[c].pc = "idle"
    /\ callers[c].shutdowns < MaxShutdowns
    /\ IF stop
       THEN /\ callers' = [callers EXCEPT ![c].shutdowns = @ + 1]
            /\ UNCHANGED stop
       ELSE /\ stop' = TRUE
            /\ callers' = [callers EXCEPT ![c].pc = "join", ![c].joinIdx = 1]
    /\ UNCHANGED <<taskQueue, workers, wstate, joins, tasks, terminated, call>>

(***************************************************************************)
(* ThreadPool::shutdown: one iteration of the join loop.  join() returns   *)
(* when the worker's thread function has returned.                         *)
(***************************************************************************)
ShutdownJoin(c) ==
    /\ ~terminated
    /\ callers[c].pc = "join"
    /\ callers[c].joinIdx <= Len(workers)
    /\ LET w == workers[callers[c].joinIdx]
       IN IF joins[w] = 0
          THEN /\ wstate[w].pc = "exited"
               /\ joins' = [joins EXCEPT ![w] = @ + 1]
          ELSE UNCHANGED joins
    /\ callers' = [callers EXCEPT ![c].joinIdx = @ + 1]
    /\ UNCHANGED <<stop, taskQueue, workers, wstate, tasks, terminated, call>>

(***************************************************************************)
(* ThreadPool::shutdown: workers.clear() and return.                       *)
(***************************************************************************)
ShutdownClear(c) ==
    /\ ~terminated
    /\ callers[c].pc = "join"
    /\ callers[c].joinIdx > Len(workers)
    /\ workers' = <<>>
    /\ callers' = [callers EXCEPT ![c].pc = "idle", ![c].joinIdx = 0, ![c].shutdowns = @ + 1]
    /\ UNCHANGED <<stop, taskQueue, wstate, joins, tasks, terminated, call>>

(***************************************************************************)
(* Worker loop: condition.wait under the lock, exit on stop with an empty  *)
(* queue, else pop the front wrapper.                                      *)
(***************************************************************************)
WorkerTake(w) ==
    /\ ~terminated
    /\ wstate[w].pc = "waiting"
    /\ stop \/ taskQueue # <<>>
    /\ IF stop /\ taskQueue = <<>>
       THEN /\ wstate' = [wstate EXCEPT ![w].pc = "exited"]
            /\ UNCHANGED <<taskQueue, tasks>>
       ELSE /\ wstate' = [wstate EXCEPT ![w].pc = "running", ![w].task = Head(taskQueue).id]
            /\ taskQueue' = Tail(taskQueue)
            /\ tasks' = [tasks EXCEPT ![Head(taskQueue).id].pops = @ + 1]
    /\ UNCHANGED <<stop, workers, joins, callers, terminated, call>>

(***************************************************************************)
(* Worker loop, task(): the wrapper calls the submitted closure.           *)
(***************************************************************************)
WorkerExecute(w) ==
    /\ ~terminated
    /\ wstate[w].pc = "running"
    /\ tasks[wstate[w].task].kind \in TaskKinds
    /\ tasks' = [tasks EXCEPT ![wstate[w].task].onWorker = @ + 1]
    /\ wstate' = [wstate EXCEPT ![w].pc = "delivering",
                                ![w].outcome = TaskOutcome(tasks[wstate[w].task].kind)]
    /\ UNCHANGED <<stop, taskQueue, workers, joins, callers, terminated, call>>

(***************************************************************************)
(* Worker loop, rest of the wrapper: hand the value or the exception to    *)
(* the callbacks of the wrapper's promise.  An exception that leaves the   *)
(* wrapper leaves the thread function: std::terminate.                     *)
(***************************************************************************)
WorkerDeliver(w) ==
    /\ ~terminated
    /\ wstate[w].pc = "delivering"
    /\ LET t == wstate[w].task
       IN IF WrapperDeliver(tasks[t].promise, wstate[w].outcome) = "escapes"
          THEN /\ terminated' = TRUE
               /\ wstate' = [wstate EXCEPT ![w].pc = "escaped"]
          ELSE /\ wstate' = [wstate EXCEPT ![w].pc = "waiting", ![w].task = 0,
                                           ![w].outcome = "none"]
               /\ UNCHANGED terminated
    /\ UNCHANGED <<stop, taskQueue, workers, joins, tasks, callers, call>>

(***************************************************************************)
(* The record of a closure that collect hands to globalThreadPool.submit:  *)
(* the Promise constructor has run it on the submitting thread.            *)
(***************************************************************************)
CollectTask(kind, i, frame, status) ==
    LET promise == PromiseConstruct("ok")
    IN [kind |-> kind, promise |-> promise, stopAtCall |-> stop, status |-> status,
        onSubmitter |-> IF promise.ranTask THEN 1 ELSE 0,
        onWorker |-> 0, pops |-> 0, got |-> "none", part |-> i, frame |-> frame]

(***************************************************************************)
(* The overloads of collect a call can take: the one with an interrupter   *)
(* (used by every terminal method) and the one without.                    *)
(***************************************************************************)
CallInputs ==
    {[col |-> col, withInterrupter |-> TRUE] : col \in Collectors}
        \cup {[col |-> col, withInterrupter |-> FALSE] :
                col \in {c \in Collectors : c.name \in FullNames}}

StartCall(op, col, withInterrupter, elems, k) ==
    [NoCall EXCEPT !.op = op, !.col = col, !.withInterrupter = withInterrupter,
                   !.elems = elems, !.k = k]

(***************************************************************************)
(* Collectable<E>::collect: the sequential branch, or the start of the     *)
(* outer task of the concurrent branch (A result = identity()), which the  *)
(* Promise constructor of the outer submit runs on the calling thread.     *)
(***************************************************************************)
CollectableCall(col, withInterrupter, elems, k) ==
    IF k < 2
    THEN [StartCall("Collectable", col, withInterrupter, elems, k) EXCEPT
            !.pc = "returned",
            !.result = CollectableSequential(col, withInterrupter, elems)]
    ELSE [StartCall("Collectable", col, withInterrupter, elems, k) EXCEPT
            !.pc = "submitting",
            !.finalResult = Identity(col)]

CollectableBegin ==
    /\ ~terminated
    /\ call.op = "none"
    /\ \E in \in CallInputs, elems \in Inputs, k \in 1..MaxK :
            call' = CollectableCall(in.col, in.withInterrupter, elems, k)
    /\ UNCHANGED <<stop, taskQueue, workers, wstate, joins, tasks, callers, terminated>>

(***************************************************************************)
(* Collectable<E>::collect, one iteration of the submit loop of the outer  *)
(* task: the partition lambda runs inside the Promise constructor, then    *)
(* submit refuses or queues the wrapper.                                   *)
(***************************************************************************)
CollectableSubmitPart ==
    /\ ~terminated
    /\ call.op = "Collectable"
    /\ call.pc = "submitting"
    /\ call.i < call.k
    /\ LET run == CollectableInner(WithFound(call.col, call.shouldInterrupt),
                                   call.withInterrupter, call.elems,
                                   call.shouldInterrupt)
       IN IF stop
          THEN /\ tasks' = Append(tasks, CollectTask("part", call.i, "collect", "refused"))
               /\ call' = [call EXCEPT !.shouldInterrupt = run.shouldInterrupt,
                                       !.outerState = "rejected",
                                       !.pc = "enqueueOuter"]
               /\ UNCHANGED taskQueue
          ELSE /\ tasks' = Append(tasks, CollectTask("part", call.i, "collect", "queued"))
               /\ taskQueue' = Append(taskQueue, [id |-> Len(tasks) + 1,
                                                  promise |-> PromiseConstruct("ok")])
               /\ call' = [call EXCEPT !.shouldInterrupt = run.shouldInterrupt,
                                       !.completed = @ \cup {call.i},
                                       !.i = @ + 1]
    /\ UNCHANGED <<stop, workers, wstate, joins, callers, terminated>>

(***************************************************************************)
(* Collectable<E>::collect, end of the outer task: promise.wait() on every *)
(* partition promise, then return finisher(result).                        *)
(***************************************************************************)
CollectableWait ==
    /\ ~terminated
    /\ call.op = "Collectable"
    /\ call.pc = "submitting"
    /\ call.i = call.k
    /\ call.completed = 0..(call.k - 1)
    /\ call' = [call EXCEPT !.pc = "enqueueOuter",
                            !.outerState = "fullfilled",
                            !.result = Finisher(call.col, call.finalResult)]
    /\ UNCHANGED <<stop, taskQueue, workers, wstate, joins, tasks, callers, terminated>>

(***************************************************************************)
(* Collectable<E>::collect, the locked block of the outer submit.          *)
(***************************************************************************)
CollectableEnqueueOuter ==
    /\ ~terminated
    /\ call.op = "Collectable"
    /\ call.pc = "enqueueOuter"
    /\ IF stop
       THEN /\ tasks' = Append(tasks, CollectTask("outer", 0, "none", "refused"))
            /\ call' = [call EXCEPT !.pc = "threw"]
            /\ UNCHANGED taskQueue
       ELSE /\ tasks' = Append(tasks, CollectTask("outer", 0, "none", "queued"))
            /\ taskQueue' = Append(taskQueue, [id |-> Len(tasks) + 1,
                                               promise |-> PromiseConstruct("ok")])
            /\ call' = [call EXCEPT !.pc = "getResult"]
    /\ UNCHANGED <<stop, workers, wstate, joins, callers, terminated>>

(***************************************************************************)
(* Collectable<E>::collect, getResult() on the outer promise.              *)
(***************************************************************************)
CollectableGetResult ==
    /\ ~terminated
    /\ call.op = "Collectable"
    /\ call.pc = "getResult"
    /\ call.outerState # "pending"
    /\ call' = [call EXCEPT !.pc = IF call.outerState = "rejected" THEN "threw"
                                   ELSE "returned"]
    /\ UNCHANGED <<stop, taskQueue, workers, wstate, joins, tasks, callers, terminated>>

(***************************************************************************)
(* OrderedCollectable<E>::collect: the sequential branch, or the start of  *)
(* the concurrent branch (A finalResult = identity()).                     *)
(***************************************************************************)
OrderedCall(col, withInterrupter, container, k) ==
    IF k < 2
    THEN [StartCall("Ordered", col, withInterrupter, container, k) EXCEPT
            !.pc = "returned",
            !.result = OrderedSequential(col, withInterrupter, container)]
    ELSE [StartCall("Ordered", col, withInterrupter, container, k) EXCEPT
            !.pc = "submitting",
            !.finalResult = Identity(col),
            !.visits = [index \in 1..Len(container) |-> {}]]

OrderedBegin ==
    /\ ~terminated
    /\ call.op = "none"
    /\ \E in \in CallInputs, container \in Inputs, k \in 1..MaxK :
            call' = OrderedCall(in.col, in.withInterrupter, container, k)
    /\ UNCHANGED <<stop, taskQueue, workers, wstate, joins, tasks, callers, terminated>>

(***************************************************************************)
(* OrderedCollectable<E>::collect, one iteration of the submit loop: the   *)
(* partition lambda runs inside the Promise constructor and its value is   *)
(* the promise's result; then submit refuses or queues the wrapper.        *)
(***************************************************************************)
OrderedSubmitPart ==
    /\ ~terminated
    /\ call.op = "Ordered"
    /\ call.pc = "submitting"
    /\ call.i < call.k
    /\ LET run == OrderedPartition(WithFound(call.col, call.shouldInterrupt),
                                   call.withInterrupter, call.elems,
                                   call.k, call.i)
           ran == [call EXCEPT
                     !.shouldInterrupt = @ \/ run.interrupted,
                     !.visits = [index \in 1..Len(call.elems) |->
                                   IF index \in run.visited
                                   THEN call.visits[index] \cup {call.i}
                                   ELSE call.visits[index]]]
       IN IF stop
          THEN /\ tasks' = Append(tasks, CollectTask("part", call.i, "collect", "refused"))
               /\ call' = [ran EXCEPT !.pc = "threw"]
               /\ UNCHANGED taskQueue
          ELSE /\ tasks' = Append(tasks, CollectTask("part", call.i, "collect", "queued"))
               /\ taskQueue' = Append(taskQueue, [id |-> Len(tasks) + 1,
                                                  promise |-> PromiseConstruct("ok")])
               /\ call' = [ran EXCEPT
                            !.partials = Append(@, run.result),
                            !.completed = @ \cup {call.i},
                            !.i = @ + 1,
                            !.pc = IF call.i + 1 = call.k THEN "merging" ELSE "submitting"]
    /\ UNCHANGED <<stop, workers, wstate, joins, callers, terminated>>

(***************************************************************************)
(* OrderedCollectable<E>::collect, one iteration of the merge loop:        *)
(* finalResult = combiner(finalResult, promise.getResult()), and in the    *)
(* overload with an interrupter, break when the shared flag is set; after  *)
(* the loop return finisher(finalResult).                                  *)
(***************************************************************************)
OrderedMerge ==
    /\ ~terminated
    /\ call.op = "Ordered"
    /\ call.pc = "merging"
    /\ call.j < call.k
    /\ call.j \in call.completed
    /\ LET merged == Combiner(call.col, call.finalResult, call.partials[call.j + 1])
       IN call' = IF (call.withInterrupter /\ call.shouldInterrupt) \/ call.j + 1 = call.k
                  THEN [call EXCEPT !.finalResult = merged,
                                    !.result = Finisher(call.col, merged),
                                    !.pc = "returned"]
                  ELSE [call EXCEPT !.finalResult = merged, !.j = @ + 1]
    /\ UNCHANGED <<stop, taskQueue, workers, wstate, joins, tasks, callers, terminated>>

(***************************************************************************)
(* The stack frame whose locals a queued partition lambda captured by      *)
(* reference ([&, i]) still exists: collect of OrderedCollectable has not  *)
(* returned, or the outer task of Collectable::collect is still running.   *)
(***************************************************************************)
FrameAlive(t) ==
    /\ tasks[t].frame = "collect"
    /\ \/ call.op = "Ordered" /\ call.pc \in {"submitting", "merging"}
       \/ call.op = "Collectable" /\ call.pc = "submitting"

(***************************************************************************)
(* Worker loop, task() of a queued partition wrapper: the partition lambda *)
(* runs a second time, on the worker, against the caller's live frame.     *)
(***************************************************************************)
WorkerExecutePart(w) ==
    /\ ~terminated
    /\ wstate[w].pc = "running"
    /\ tasks[wstate[w].task].kind = "part"
    /\ FrameAlive(wstate[w].task)
    /\ call' = IF call.op = "Ordered"
               THEN [call EXCEPT !.shouldInterrupt = @ \/
                        OrderedPartition(WithFound(call.col, call.shouldInterrupt),
                                         call.withInterrupter, call.elems,
                                         call.k, tasks[wstate[w].task].part).interrupted]
               ELSE [call EXCEPT !.shouldInterrupt =
                        CollectableInner(WithFound(call.col, call.shouldInterrupt),
                                         call.withInterrupter, call.elems,
                                         call.shouldInterrupt).shouldInterrupt]
    /\ tasks' = [tasks EXCEPT ![wstate[w].task].onWorker = @ + 1]
    /\ wstate' = [wstate EXCEPT ![w].pc = "delivering", ![w].outcome = "returns"]
    /\ UNCHANGED <<stop, taskQueue, workers, joins, callers, terminated>>

(***************************************************************************)
(* Worker loop, task() of a queued partition wrapper whose captured frame  *)
(* is gone: the lambda reads and writes dangling references.  Undefined    *)
(* behaviour: it either goes unnoticed or brings the process down.         *)
(***************************************************************************)
WorkerExecuteDangling(w) ==
    /\ ~terminated
    /\ wstate[w].pc = "running"
    /\ tasks[wstate[w].task].kind = "part"
    /\ ~FrameAlive(wstate[w].task)
    /\ tasks' = [tasks EXCEPT ![wstate[w].task].onWorker = @ + 1]
    /\ \/ /\ wstate' = [wstate EXCEPT ![w].pc = "delivering", ![w].outcome = "returns"]
          /\ UNCHANGED terminated
       \/ /\ wstate' = [wstate EXCEPT ![w].pc = "faulted"]
          /\ terminated' = TRUE
    /\ UNCHANGED <<stop, taskQueue, workers, joins, callers, call>>

(***************************************************************************)
(* Worker loop, task() of the queued outer wrapper of Collectable::collect:*)
(* the outer task runs a second time, on the worker: it submits its k      *)
(* partition lambdas again (each run by its Promise constructor), waits    *)
(* and returns the finished identity.                                      *)
(***************************************************************************)
WorkerExecuteOuter(w) ==
    /\ ~terminated
    /\ wstate[w].pc = "running"
    /\ tasks[wstate[w].task].kind = "outer"
    /\ LET t == wstate[w].task
           ran == [tasks EXCEPT ![t].onWorker = @ + 1]
       IN IF stop
          THEN /\ tasks' = Append(ran, CollectTask("part", 0, "rerun", "refused"))
               /\ wstate' = [wstate EXCEPT ![w].pc = "delivering", ![w].outcome = "throws"]
               /\ UNCHANGED taskQueue
          ELSE /\ tasks' = ran \o [i \in 1..call.k |->
                                    CollectTask("part", i - 1, "rerun", "queued")]
               /\ taskQueue' = taskQueue \o [i \in 1..call.k |->
                                    [id |-> Len(tasks) + i, promise |-> PromiseConstruct("ok")]]
               /\ wstate' = [wstate EXCEPT ![w].pc = "delivering", ![w].outcome = "returns"]
    /\ UNCHANGED <<stop, workers, joins, callers, terminated, call>>

(***************************************************************************)
(* A terminal method of the Collectable of semantic.h with concurrent = 1: *)
(* collector.collect over the generator (join) or over the source vector   *)
(* (anyMatch, allMatch, noneMatch, count).                                 *)
(***************************************************************************)
CollectorCollect ==
    /\ ~terminated
    /\ call.op = "none"
    /\ \E col \in HCollectors, container \in Inputs :
        \/ call' = [StartCall("CollectorGenerator", col, TRUE, container, 1) EXCEPT
                        !.pc = "returned",
                        !.result = CollectorCollectGenerator(col, container)]
        \/ call' = [StartCall("CollectorVector", col, TRUE, container, 1) EXCEPT
                        !.pc = "returned",
                        !.result = CollectorCollectVector(col, container)]
    /\ UNCHANGED <<stop, taskQueue, workers, wstate, joins, tasks, callers, terminated>>

NextCollect ==
    \/ CollectableBegin
    \/ CollectableSubmitPart
    \/ CollectableWait
    \/ CollectableEnqueueOuter
    \/ CollectableGetResult
    \/ OrderedBegin
    \/ OrderedSubmitPart
    \/ OrderedMerge
    \/ CollectorCollect
    \/ \E w \in WorkerIds : WorkerTake(w)
    \/ \E w \in WorkerIds : WorkerExecutePart(w)
    \/ \E w \in WorkerIds : WorkerExecuteDangling(w)
    \/ \E w \in WorkerIds : WorkerExecuteOuter(w)
    \/ \E w \in WorkerIds : WorkerDeliver(w)

SpecCollect == Init /\ [][NextCollect]_vars

(***************************************************************************)
(* findFirst() and findAny() of Collectable and of OrderedCollectable:     *)
(* collect with an interrupter, over the generator resp. the container.    *)
(***************************************************************************)
FindBegin ==
    /\ ~terminated
    /\ call.op = "none"
    /\ \E col \in FindCollectors, elems \in Inputs, k \in 1..MaxK :
        \/ call' = CollectableCall(col, TRUE, elems, k)
        \/ call' = OrderedCall(col, TRUE, elems, k)
    /\ UNCHANGED <<stop, taskQueue, workers, wstate, joins, tasks, callers, terminated>>

NextFind ==
    \/ FindBegin
    \/ CollectableSubmitPart
    \/ CollectableWait
    \/ CollectableEnqueueOuter
    \/ CollectableGetResult
    \/ OrderedSubmitPart
    \/ OrderedMerge
    \/ \E w \in WorkerIds : WorkerTake(w)
    \/ \E w \in WorkerIds : WorkerExecutePart(w)
    \/ \E w \in WorkerIds : WorkerExecuteDangling(w)
    \/ \E w \in WorkerIds : WorkerExecuteOuter(w)
    \/ \E w \in WorkerIds : WorkerDeliver(w)

SpecFind == Init /\ [][NextFind]_vars

Next ==
    \/ \E c \in Callers, kind \in TaskKinds : SubmitConstruct(c, kind)
    \/ \E c \in Callers : SubmitEnqueue(c)
    \/ \E c \in Callers, t \in 1..MaxTasks : GetResult(c, t)
    \/ \E c \in Callers : ShutdownBegin(c)
    \/ \E c \in Callers : ShutdownJoin(c)
    \/ \E c \in Callers : ShutdownClear(c)
    \/ \E w \in WorkerIds : WorkerTake(w)
    \/ \E w \in WorkerIds : WorkerExecute(w)
    \/ \E w \in WorkerIds : WorkerDeliver(w)

Spec == Init /\ [][Next]_vars

(***************************************************************************)
(* Pipelines: a source adapter, a chain of Semantic stages and a terminal  *)
(* operation.  A generator is a function of the accept and interrupt       *)
(* callbacks; it is modelled by running the source loop and delivering     *)
(* every element through the accept lambdas of the stages, innermost       *)
(* first, while the interrupt handed down by the stages is false.          *)
(***************************************************************************)
Emission(element, index) == [element |-> element, index |-> index]

\* from(const std::vector<E>&) in semantic.cpp: accept(vector[index], index)
FromVectorEmissions(vector) ==
    [position \in 1..Len(vector) |-> Emission(vector[position], position - 1)]

\* range(start, end) in semantic.cpp: accept(current, index++); ++current
RangeEmissions(start, end) ==
    [position \in 1..(IF start < end THEN end - start ELSE 0) |->
        Emission(start + position - 1, position - 1)]

\* from(std::vector<E>) in semantic.h: Module index = 0 is never advanced
HFromVectorEmissions(container) ==
    [position \in 1..Len(container) |-> Emission(container[position], 0)]

\* the supplier [n = 0]() mutable { return 1 + (n++ % MaxValue); }, whose
\* value depends on the calls made before
Supplier(calls) == 1 + (calls % MaxValue)

\* fill(supplier, count) in semantic.cpp after calls calls of the supplier:
\* E element = supplier(); accept(element, index)
FillEmissions(calls, count) ==
    [position \in 1..count |-> Emission(Supplier(calls + position - 1), position - 1)]

SourceEmissions(source) ==
    CASE source.kind = "from" -> FromVectorEmissions(source.elems)
      [] source.kind = "fill" -> FillEmissions(source.start, source.end)
      [] source.kind = "range" -> RangeEmissions(source.start, source.end)
      [] source.kind = "hfrom" -> HFromVectorEmissions(source.elems)
      [] source.kind = "hrange" -> RangeEmissions(source.start, source.end)

Source(kind, elems, start, end) ==
    [kind |-> kind, elems |-> elems, start |-> start, end |-> end]

Sources ==
    {Source(kind, elems, 0, 0) : kind \in {"from", "hfrom"}, elems \in Inputs}
        \cup {Source("range", <<>>, start, end) : start \in 0..1, end \in 0..MaxLen}

\* the identifiers handed to distinct
Identifier(identifier, a, b) ==
    CASE identifier = "difference" -> a - b
      [] identifier = "parity" -> (a % 2) + (b % 2)

Stage(op, p, n, f, other) ==
    [op |-> op, p |-> p, n |-> n, f |-> f, other |-> other]

\* the second sources handed to concat
Others == {other \in Inputs : Len(other) <= 1} \cup {<<2, 1>>}

Stages ==
    {Stage("filter", p, 0, "", <<>>) : p \in SUBSET Values}
        \cup {Stage("map", {}, 0, f, <<>>) : f \in {"times10", "plus1"}}
        \cup {Stage(op, {}, n, "", <<>>) : op \in {"limit", "skip"}, n \in 0..MaxLen}
        \cup {Stage("distinct", {}, 0, "", <<>>)}
        \cup {Stage("distinctBy", {}, 0, f, <<>>) : f \in {"difference", "parity"}}
        \cup {Stage("reverse", {}, 0, "", <<>>)}
        \cup {Stage("translate", {}, n, "", <<>>) : n \in {-1, 1}}
        \cup {Stage("concat", {}, 0, "", other) : other \in Others}

\* the chains of combinators applied to a source: at most two stages
Chains ==
    {<<>>} \cup {<<first>> : first \in Stages}
        \cup {<<first, second>> : first \in Stages, second \in Stages}

(***************************************************************************)
(* The accept lambda every stage hands to its upstream generator: st is    *)
(* the local the lambda captures by reference, e the element and timestamp *)
(* it is called with.  The result is the new local and the call made to    *)
(* the downstream accept, if any.                                          *)
(***************************************************************************)
Dropped(st) == [st |-> st, emit |-> <<>>]
Passed(st, e) == [st |-> st, emit |-> <<e>>]

\* filter that calls accept for every element
FilterAccept_All(p, st, e) == Passed(st, e)

FilterAccept(p, st, e) ==
    IF e.element \in p THEN Passed(st, e) ELSE Dropped(st)

MapAccept(f, st, e) == Passed(st, Emission(Mapper(f, e.element), e.index))

LimitAccept(n, count, e) == Passed(count + 1, e)

\* limit that interrupts one element late
LimitInterrupt_OffByOne(n, count) == count > n

LimitInterrupt(n, count) == count >= n

SkipAccept(n, skipped, e) ==
    IF skipped < n THEN Dropped(skipped + 1)
    ELSE Passed(skipped, Emission(e.element, e.index - n))

\* distinct that forgets what it has seen
DistinctAccept_NoMemory(seen, e) == Passed(seen, e)

DistinctAccept(seen, e) ==
    IF e.element \notin seen THEN Passed(seen \cup {e.element}, e)
    ELSE Dropped(seen)

DistinctByAccept(identifier, seen, e) ==
    LET id == Identifier(identifier, e.element, e.element)
    IN  IF id \notin seen THEN Passed(seen \cup {id}, e) ELSE Dropped(seen)

\* reverse that leaves the timestamp as it is
ReverseAccept_NoNegation(st, e) == Passed(st, e)

ReverseAccept(st, e) == Passed(st, Emission(e.element, -e.index))

TranslateAccept(offset, st, e) == Passed(st, Emission(e.element, e.index + offset))

\* concat: the lambda for the elements of this, and the one for those of other
ConcatAccept(count, e) == Passed(count + 1, e)

ConcatAcceptOther(count, e) == Passed(count, Emission(e.element, e.index + count))

\* takeWhile(p): accept when p(element); interrupt is
\* !p(element) || interrupt(element)
TakeWhileAccept(p, st, e) ==
    IF e.element \in p THEN Passed(st, e) ELSE Dropped(st)

TakeWhileInterrupt(p, element) == element \notin p

\* shuffle(mapper): accept(element, mapper(element))
ShuffleAccept(f, st, e) == Passed(st, Emission(e.element, Mapper(f, e.element)))

StageInit(stage) ==
    IF stage.op \in {"distinct", "distinctBy"} THEN {} ELSE 0

StageAccept(stage, st, e) ==
    CASE stage.op = "filter" -> FilterAccept(stage.p, st, e)
      [] stage.op = "map" -> MapAccept(stage.f, st, e)
      [] stage.op = "limit" -> LimitAccept(stage.n, st, e)
      [] stage.op = "skip" -> SkipAccept(stage.n, st, e)
      [] stage.op = "distinct" -> DistinctAccept(st, e)
      [] stage.op = "distinctBy" -> DistinctByAccept(stage.f, st, e)
      [] stage.op = "reverse" -> ReverseAccept(st, e)
      [] stage.op = "translate" -> TranslateAccept(stage.n, st, e)
      [] stage.op = "concat" -> ConcatAccept(st, e)
      [] stage.op = "takeWhile" -> TakeWhileAccept(stage.p, st, e)
      [] stage.op = "shuffle" -> ShuffleAccept(stage.f, st, e)

\* limit hands count >= n || interrupt(element) upstream and takeWhile
\* !p(element) || interrupt(element); the other stages, map among them,
\* hand on the interrupt they were given, so that every interrupt of the
\* chain is called with the element the source tests
StageInterrupt(stage, st, element) ==
    \/ stage.op = "limit" /\ LimitInterrupt(stage.n, st)
    \/ stage.op = "takeWhile" /\ TakeWhileInterrupt(stage.p, element)

(***************************************************************************)
(* The accept and interrupt lambdas of the operation that runs the         *)
(* generator: Collectable::collect with concurrent < 2 ("collect"), the    *)
(* lambdas of OrderedCollectable::toIndexedSet ("indexedSet"), those of    *)
(* Semantic::sorted ("elements") and those of Collector::collect in        *)
(* semantic.h ("collector").  down.out records the calls of accept,        *)
(* down.visits the elements the sources have emitted, down.trace the calls *)
(* of the interrupt made by the sources and the calls of accept, in order. *)
(***************************************************************************)
Sink(kind, col) == [kind |-> kind, col |-> col]

NoCollector == [name |-> "none", pred |-> {}]

(***************************************************************************)
(* The lambdas of one std::async task of Collector::collect(generator,     *)
(* concurrent) in semantic.h.  They receive the Timestamp as const Module& *)
(* (unsigned 64 bit) and test thread == index % concurrent.  taken lists   *)
(* the calls of accept, by their ordinal, that the task accumulated.       *)
(***************************************************************************)
\* 2^exponent % modulus
RECURSIVE Pow2Mod(_, _)
Pow2Mod(exponent, modulus) ==
    IF exponent = 0 THEN 1 % modulus
    ELSE IF exponent % 2 = 0
         THEN LET half == Pow2Mod(exponent \div 2, modulus)
              IN  (half * half) % modulus
    ELSE (2 * Pow2Mod(exponent - 1, modulus)) % modulus

\* static_cast<Module>(index) % concurrent: a negative index is index + 2^64
ModuleMod(index, concurrent) ==
    IF index >= 0 THEN index % concurrent
    ELSE (Pow2Mod(64, concurrent) + (index % concurrent)) % concurrent

\* a task that takes every element
TaskTakes_All(thread, concurrent, index) == TRUE

TaskTakes(thread, concurrent, index) == thread = ModuleMod(index, concurrent)

TaskSink(col, thread, concurrent) ==
    [kind |-> "task", col |-> col, thread |-> thread, concurrent |-> concurrent]

\* flatMap(mapper) at the end of a chain, run by Collectable::collect with
\* concurrent < 2: current is the local of flatMap's generator, collect
\* the locals of collect, accepted the calls of collect's accept lambda
FlatMapSink(f, col) == [kind |-> "flatMap", col |-> col, f |-> f]

SinkInit(sink) ==
    [st |-> CASE sink.kind = "collect" ->
                    [result |-> Identity(sink.col), shouldInterrupt |-> FALSE]
              [] sink.kind = "indexedSet" -> {}
              [] sink.kind = "elements" -> <<>>
              [] sink.kind = "collector" -> HIdentity(sink.col)
              [] sink.kind = "task" -> [accumulator |-> HIdentity(sink.col),
                                        taken |-> <<>>]
              [] sink.kind = "flatMap" ->
                    [current |-> 0,
                     collect |-> [result |-> Identity(sink.col),
                                  shouldInterrupt |-> FALSE],
                     accepted |-> <<>>],
     out |-> <<>>,
     visits |-> 0,
     trace |-> <<>>]

\* a source has called the interrupt with the element of e and got value
Probe(down, e, value) ==
    [down EXCEPT !.trace = Append(@, [kind |-> "interrupt", element |-> e.element,
                                      value |-> value])]

\* the pipelines the mappers handed to flat and flatMap return: range(0,
\* element), range(1, element), and a copy of the named pipeline
\* from({1, 2}).reverse(), whatever the element
InnerEmissions(f, element) ==
    CASE f = "range" -> RangeEmissions(0, element)
      [] f = "tail" -> RangeEmissions(1, element)
      [] f = "reversed" -> <<Emission(1, 0), Emission(2, -1)>>

\* flatMap that hands on the timestamp of the inner pipeline
FlatMapEmission_InnerIndex(inner, current) == inner

\* flat, flatMap: accept(innerElement, current)
FlatMapEmission(inner, current) == Emission(inner.element, current)

\* the loop of the source of mapper(element), run with the interrupt
\* flatMap was given and with the accept lambda accept(innerElement,
\* current); current++.  accepted lists the calls of the accept flatMap
\* was given
RECURSIVE RunInner(_, _, _, _)
RunInner(col, emissions, position, st) ==
    IF position > Len(emissions) THEN st
    ELSE IF GenPredicate(TRUE, st.collect) THEN st
    ELSE LET emitted == FlatMapEmission(emissions[position], st.current)
         IN  RunInner(col, emissions, position + 1,
                [current |-> st.current + 1,
                 collect |-> GenAccept(col, TRUE, st.collect, emitted.element),
                 accepted |-> Append(st.accepted, emitted)])

\* the accept lambda flatMap hands upstream
FlatMapAccept(col, f, st, e) == RunInner(col, InnerEmissions(f, e.element), 1, st)

SinkAccept(sink, down, e) ==
    [down EXCEPT
        !.out = Append(@, e),
        !.trace = Append(@, [kind |-> "accept", element |-> e.element, value |-> TRUE]),
        !.st = CASE sink.kind = "collect" -> GenAccept(sink.col, TRUE, @, e.element)
                 [] sink.kind = "indexedSet" -> @ \cup {<<e.index, e.element>>}
                 [] sink.kind = "elements" -> Append(@, <<e.index, e.element>>)
                 [] sink.kind = "collector" ->
                        HAccumulator(sink.col, @, e.element, e.index)
                 [] sink.kind = "task" ->
                        IF TaskTakes(sink.thread, sink.concurrent, e.index)
                        THEN [accumulator |-> HAccumulator(sink.col, @.accumulator,
                                                           e.element, e.index),
                              taken |-> Append(@.taken, Len(down.out) + 1)]
                        ELSE @
                 [] sink.kind = "flatMap" -> FlatMapAccept(sink.col, sink.f, @, e)]

SinkInterrupt(sink, down, e) ==
    CASE sink.kind = "collect" -> GenPredicate(TRUE, down.st)
      [] sink.kind = "indexedSet" -> FALSE
      [] sink.kind = "elements" -> FALSE
      [] sink.kind = "collector" -> HInterrupt(sink.col, down.st, e.element, e.index)
      [] sink.kind = "task" ->
            /\ TaskTakes(sink.thread, sink.concurrent, e.index)
            /\ HInterrupt(sink.col, down.st.accumulator, e.element, e.index)
      [] sink.kind = "flatMap" -> GenPredicate(TRUE, down.st.collect)

\* the interrupt predicate the generator below stage j + 1 is called with
InterruptAbove(sink, stages, j, sts, down, e) ==
    \/ \E i \in (j + 1)..Len(stages) : StageInterrupt(stages[i], sts[i], e.element)
    \/ SinkInterrupt(sink, down, e)

\* accept of stage i called with e: the element travels up the chain until
\* a stage drops it or the terminal's accept takes it
RECURSIVE Deliver(_, _, _, _, _, _)
Deliver(sink, stages, i, sts, down, e) ==
    IF i > Len(stages) THEN [sts |-> sts, down |-> SinkAccept(sink, down, e)]
    ELSE LET r == StageAccept(stages[i], sts[i], e)
             sts2 == [sts EXCEPT ![i] = r.st]
         IN  IF r.emit = <<>> THEN [sts |-> sts2, down |-> down]
             ELSE Deliver(sink, stages, i + 1, sts2, down, r.emit[1])

\* the loop of a source adapter whose generator is run by stage j + 1 (the
\* source of the pipeline, j = 0) or by the concat stage j for its other
\* source: break when the interrupt holds, else accept
RECURSIVE RunSource(_, _, _, _, _, _, _)
RunSource(sink, stages, j, emissions, position, sts, down) ==
    IF position > Len(emissions) THEN [sts |-> sts, down |-> down]
    ELSE IF InterruptAbove(sink, stages, j, sts, down, emissions[position])
         THEN [sts |-> sts, down |-> Probe(down, emissions[position], TRUE)]
    ELSE LET visited == [Probe(down, emissions[position], FALSE) EXCEPT !.visits = @ + 1]
             r == IF j = 0
                  THEN Deliver(sink, stages, 1, sts, visited, emissions[position])
                  ELSE Deliver(sink, stages, j + 1, sts, visited,
                          ConcatAcceptOther(sts[j], emissions[position]).emit[1])
         IN  RunSource(sink, stages, j, emissions, position + 1, r.sts, r.down)

\* after the generator of this has returned, every concat stage runs the
\* generator of its other source, innermost concat first
RECURSIVE RunOthers(_, _, _, _)
RunOthers(sink, stages, c, r) ==
    IF c > Len(stages) THEN r
    ELSE IF stages[c].op = "concat"
         THEN RunOthers(sink, stages, c + 1,
                RunSource(sink, stages, c, FromVectorEmissions(stages[c].other), 1,
                          r.sts, r.down))
    ELSE RunOthers(sink, stages, c + 1, r)

\* the loop of split(stream, delimiter) over the buffers the stream holds:
\* if (!predicate(buffer)) accept(buffer, index++); then the next buffer
RECURSIVE RunSplit(_, _, _, _, _, _, _)
RunSplit(sink, stages, buffers, position, index, sts, down) ==
    IF position > Len(buffers) THEN [sts |-> sts, down |-> down]
    ELSE LET e == Emission(buffers[position], index)
         IN  IF InterruptAbove(sink, stages, 0, sts, down, e)
             THEN RunSplit(sink, stages, buffers, position + 1, index, sts,
                           Probe(down, e, TRUE))
             ELSE LET r == Deliver(sink, stages, 1, sts,
                                   [Probe(down, e, FALSE) EXCEPT !.visits = @ + 1], e)
                  IN  RunSplit(sink, stages, buffers, position + 1, index + 1,
                               r.sts, r.down)

\* (*generator)(accept, interrupt) for the generator of the last stage
RunGenerator(sink, source, stages) ==
    RunOthers(sink, stages, 1,
        RunSource(sink, stages, 0, SourceEmissions(source), 1,
                  [i \in 1..Len(stages) |-> StageInit(stages[i])],
                  SinkInit(sink))).down

\* the same over split(stream, delimiter)
RunSplitGenerator(sink, source, stages) ==
    RunOthers(sink, stages, 1,
        RunSplit(sink, stages, source.elems, 1, 0,
                 [i \in 1..Len(stages) |-> StageInit(stages[i])],
                 SinkInit(sink))).down

(***************************************************************************)
(* OrderedCollectable: the constructor materializes the generator into     *)
(* container = toIndexedSet(), a set of (timestamp, element) pairs kept in *)
(* ascending order.  arrange maps every timestamp into the index space of  *)
(* the container: first > 0 ? first % size : size - (|first| % size).      *)
(***************************************************************************)
Arrange(first, size) ==
    IF first > 0 THEN first % size ELSE size - ((-first) % size)

ArrangeContainer(container) ==
    {<<Arrange(pair[1], Cardinality(container)), pair[2]>> : pair \in container}

\* operator< of std::pair<Timestamp, E>
PairLess(a, b) == a[1] < b[1] \/ (a[1] = b[1] /\ a[2] < b[2])

\* the pairs of a container in iteration order
RECURSIVE ContainerOrder(_)
ContainerOrder(container) ==
    IF container = {} THEN <<>>
    ELSE LET least == CHOOSE a \in container :
                        \A b \in container : a = b \/ PairLess(a, b)
         IN  <<least>> \o ContainerOrder(container \ {least})

\* pair.second of every pair, in iteration order
ContainerElements(container) ==
    LET order == ContainerOrder(container)
    IN  [position \in 1..Len(order) |-> order[position][2]]

\* toIndexedSet with concurrent < 2
ToIndexedSet(source, stages) ==
    ArrangeContainer(RunGenerator(Sink("indexedSet", NoCollector), source, stages).st)

(***************************************************************************)
(* Semantic::sorted() and sorted(indexer): the generator of the returned   *)
(* OrderedCollectable collects (index, element) pairs, arranges the        *)
(* indices, sorts the pairs (by operator< of the pair, or by the indexer   *)
(* applied to the elements) and calls accept(pair.second, pair.first).     *)
(***************************************************************************)
Indexer(indexer, a, b) ==
    CASE indexer = "ascending" -> a - b
      [] indexer = "descending" -> b - a

ArrangeElements(elements) ==
    [position \in 1..Len(elements) |->
        <<Arrange(elements[position][1], Len(elements)), elements[position][2]>>]

SortedOrder(indexer, arranged) ==
    IF indexer = "none" THEN SortSeq(arranged, PairLess)
    ELSE SortSeq(arranged, LAMBDA a, b : Indexer(indexer, a[2], b[2]) < 0)

\* the calls of accept made by the generator of sorted, in order
SortedEmissions(indexer, source, stages) ==
    LET elements == RunGenerator(Sink("elements", NoCollector), source, stages).st
        arranged == SortedOrder(indexer, ArrangeElements(elements))
    IN  [position \in 1..Len(arranged) |->
            Emission(arranged[position][2], arranged[position][1])]

\* the container the constructor of the returned OrderedCollectable builds
SortedContainer(indexer, source, stages) ==
    LET emitted == SortedEmissions(indexer, source, stages)
    IN  ArrangeContainer({<<emitted[position].index, emitted[position].element>> :
                            position \in 1..Len(emitted)})

(***************************************************************************)
(* WindowCollectable::slide builds the windows in a local vector and       *)
(* returns empty<Semantic<E>>(); tumble(size) is slide(size, size).        *)
(***************************************************************************)
RECURSIVE SlideWindows(_, _, _, _)
SlideWindows(source, size, step, windowStartIndex) ==
    IF windowStartIndex >= Len(source) THEN <<>>
    ELSE LET windowEnd == IF windowStartIndex + size < Len(source)
                          THEN windowStartIndex + size ELSE Len(source)
         IN  <<SubSeq(source, windowStartIndex + 1, windowEnd)>>
                \o SlideWindows(source, size, step, windowStartIndex + step)

WindowSlide(source, size, step) ==
    LET windows == IF size > 0 /\ step > 0
                   THEN SlideWindows(source, size, step, 0) ELSE <<>>
    IN  <<>>

WindowTumble(source, size) == WindowSlide(source, size, size)

(***************************************************************************)
(* A pipeline under construction and the terminal operation applied to it. *)
(***************************************************************************)
PipelineCall ==
    [op |-> "Semantic", pc |-> "built", source |-> Source("from", <<>>, 0, 0),
     stages |-> <<>>, terminal |-> "none", arg |-> "none", result |-> <<>>,
     out |-> <<>>, visits |-> 0, container |-> {}]

\* a constructor that runs the generator it is given
SemanticConstruct_Eager(current, source, stages) ==
    [current EXCEPT !.source = source, !.stages = stages,
        !.visits = @ + RunGenerator(Sink("indexedSet", NoCollector), source, stages).visits]

\* Semantic<E>::Semantic(const Generator<E>&, concurrent): the generator is
\* stored in a shared_ptr; the lambda a combinator builds is not invoked
SemanticConstruct(current, source, stages) ==
    [current EXCEPT !.source = source, !.stages = stages]

\* from(vector), range(start, end)
SemanticSource ==
    /\ ~terminated
    /\ call.op = "none"
    /\ \E source \in Sources : call' = SemanticConstruct(PipelineCall, source, <<>>)
    /\ UNCHANGED <<stop, taskQueue, workers, wstate, joins, tasks, callers, terminated>>

\* filter, map, limit, skip, distinct, reverse, translate, concat
SemanticStage ==
    /\ call.op = "Semantic"
    /\ call.pc = "built"
    /\ \E stage \in Stages :
        /\ Append(call.stages, stage) \in Chains
        /\ call' = SemanticConstruct(call, call.source, Append(call.stages, stage))
    /\ UNCHANGED <<stop, taskQueue, workers, wstate, joins, tasks, callers, terminated>>

Returned(terminal, arg, down, result, container) ==
    [call EXCEPT !.pc = "returned", !.terminal = terminal, !.arg = arg,
                 !.result = result, !.out = down.out,
                 !.visits = @ + down.visits, !.container = container]

CppSource == call.source.kind \in {"from", "range"}

\* toUnordered().toVector() and toUnordered().findFirst(): Collectable::collect
\* with concurrent < 2
CollectableTerminal ==
    /\ call.op = "Semantic" /\ call.pc = "built" /\ CppSource
    /\ \E name \in {"toVector", "findFirst"} :
        LET col == [name |-> name, pred |-> {}]
            down == RunGenerator(Sink("collect", col), call.source, call.stages)
        IN  call' = Returned(name, "none", down, Finisher(col, down.st.result), {})
    /\ UNCHANGED <<stop, taskQueue, workers, wstate, joins, tasks, callers, terminated>>

\* toOrdered().toVector()
ToOrderedToVector ==
    /\ call.op = "Semantic" /\ call.pc = "built" /\ CppSource
    /\ LET down == RunGenerator(Sink("indexedSet", NoCollector), call.source, call.stages)
           container == ArrangeContainer(down.st)
       IN  call' = Returned("toOrdered", "none", down,
                    OrderedSequential([name |-> "toVector", pred |-> {}], TRUE,
                                      ContainerElements(container)),
                    container)
    /\ UNCHANGED <<stop, taskQueue, workers, wstate, joins, tasks, callers, terminated>>

\* sorted().toVector() and sorted(indexer).toVector()
SortedToVector ==
    /\ call.op = "Semantic" /\ call.pc = "built" /\ CppSource
    /\ \E indexer \in {"none", "ascending", "descending"} :
        LET down == RunGenerator(Sink("elements", NoCollector), call.source, call.stages)
            container == SortedContainer(indexer, call.source, call.stages)
        IN  call' = Returned("sorted", indexer, down,
                    OrderedSequential([name |-> "toVector", pred |-> {}], TRUE,
                                      ContainerElements(container)),
                    container)
    /\ UNCHANGED <<stop, taskQueue, workers, wstate, joins, tasks, callers, terminated>>

\* toWindow().tumble(size): the windows of the returned Semantic
ToWindowTumble ==
    /\ call.op = "Semantic" /\ call.pc = "built" /\ CppSource
    /\ \E size \in 1..2 :
        LET down == RunGenerator(Sink("indexedSet", NoCollector), call.source, call.stages)
            container == ArrangeContainer(down.st)
        IN  call' = Returned("tumble", size, down,
                    WindowTumble(ContainerElements(container), size), container)
    /\ UNCHANGED <<stop, taskQueue, workers, wstate, joins, tasks, callers, terminated>>

\* the Collectable of semantic.h: findFirst() and join() hand the generator
\* to Collector::collect, which returns the accumulator
HeaderTerminal ==
    /\ call.op = "Semantic" /\ call.pc = "built" /\ call.source.kind = "hfrom"
    /\ \E name \in {"useFindFirst", "useJoin"} :
        LET down == RunGenerator(Sink("collector", [name |-> name, pred |-> {}]),
                                 call.source, call.stages)
        IN  call' = Returned(name, "none", down, down.st, {})
    /\ UNCHANGED <<stop, taskQueue, workers, wstate, joins, tasks, callers, terminated>>

NextPipeline ==
    \/ SemanticSource
    \/ SemanticStage
    \/ CollectableTerminal
    \/ ToOrderedToVector
    \/ SortedToVector
    \/ ToWindowTumble
    \/ HeaderTerminal

SpecPipeline == Init /\ [][NextPipeline]_vars

(***************************************************************************)
(* Statistics<E, D> with E = D = int and concurrent < 2: the container of  *)
(* the OrderedCollectable base, the frequencyCache, and, to state what the *)
(* methods should return, the elements the object was last given, the way  *)
(* it was given them and the mapper the cache was computed with.           *)
(***************************************************************************)
StatisticsMappers == {"times10", "plus1", "modulo2"}

StatisticsObject ==
    [op |-> "Statistics", pc |-> "ready", container |-> {}, frequencyCache |-> <<>>,
     elements |-> <<>>, assigned |-> "none", memo |-> "none",
     terminal |-> "none", arg |-> "none", result |-> <<>>]

\* frequency(mapper): collect over the container when the cache is empty,
\* then return the cache
FrequencyCollector(mapper) == [name |-> "frequency", pred |-> {}, f |-> mapper]

StatisticsFrequencyCache(current, mapper) ==
    IF current.frequencyCache = <<>>
    THEN OrderedSequential(FrequencyCollector(mapper), TRUE,
                           ContainerElements(current.container))
    ELSE current.frequencyCache

\* the loop of mode over the map in key order: the first key whose count
\* exceeds every count before it and is not exceeded later; 0 for no key
StatisticsModeValue(frequencies) ==
    IF DOMAIN frequencies = {} THEN 0
    ELSE CHOOSE d \in DOMAIN frequencies :
            \A other \in DOMAIN frequencies :
                \/ frequencies[other] < frequencies[d]
                \/ (frequencies[other] = frequencies[d] /\ d <= other)

\* operator=(const std::vector<E>&) and its siblings for list, set,
\* unordered_set and initializer_list: for each element in iteration order,
\* container.insert(std::make_pair(element, index)); index++
StatisticsAssignedContainer(v) ==
    {<<v[position], position - 1>> : position \in 1..Len(v)}

\* the iteration orders of a std::vector, std::list or initializer_list
\* (any sequence), of a std::set (ascending, no duplicates) and of a
\* std::unordered_set (any order, no duplicates)
IsInjective(v) ==
    \A a \in 1..Len(v), b \in 1..Len(v) : a # b => v[a] # v[b]

IterationOrders(kind) ==
    CASE kind = "vector" -> Inputs
      [] kind = "set" ->
            {v \in Inputs : \A a \in 1..Len(v), b \in 1..Len(v) : a < b => v[a] < v[b]}
      [] kind = "unordered_set" -> {v \in Inputs : IsInjective(v)}

\* frequency(mapper) as it leaves the object
StatisticsMemoize(current, mapper) ==
    [current EXCEPT !.frequencyCache = StatisticsFrequencyCache(current, mapper),
                    !.memo = IF current.frequencyCache = <<>> THEN mapper ELSE @]

\* Semantic<E>::toStatistics(): Statistics(generator, concurrent), whose
\* base constructor materializes the generator
ToStatistics ==
    /\ ~terminated
    /\ call.op = "none"
    /\ \E elems \in Inputs :
        call' = [StatisticsObject EXCEPT
                    !.container = ToIndexedSet(Source("from", elems, 0, 0), <<>>),
                    !.elements = elems,
                    !.assigned = "constructor"]
    /\ UNCHANGED <<stop, taskQueue, workers, wstate, joins, tasks, callers, terminated>>

StatisticsFrequency ==
    /\ call.op = "Statistics"
    /\ \E mapper \in StatisticsMappers :
        LET memoized == StatisticsMemoize(call, mapper)
        IN  call' = [memoized EXCEPT !.terminal = "frequency", !.arg = mapper,
                                     !.result = memoized.frequencyCache]
    /\ UNCHANGED <<stop, taskQueue, workers, wstate, joins, tasks, callers, terminated>>

StatisticsMode ==
    /\ call.op = "Statistics"
    /\ \E mapper \in StatisticsMappers :
        LET memoized == StatisticsMemoize(call, mapper)
        IN  call' = [memoized EXCEPT !.terminal = "mode", !.arg = mapper,
                        !.result = StatisticsModeValue(memoized.frequencyCache)]
    /\ UNCHANGED <<stop, taskQueue, workers, wstate, joins, tasks, callers, terminated>>

\* operator= from a list, vector, set, unordered_set or initializer list
StatisticsAssignElements ==
    /\ call.op = "Statistics"
    /\ \E kind \in {"vector", "set", "unordered_set"} :
        \E v \in IterationOrders(kind) :
            call' = [StatisticsObject EXCEPT
                        !.container = StatisticsAssignedContainer(v),
                        !.elements = v,
                        !.assigned = kind,
                        !.terminal = "operator="]
    /\ UNCHANGED <<stop, taskQueue, workers, wstate, joins, tasks, callers, terminated>>

\* operator=(const Collectable<E>&): the base takes the generator and the
\* concurrency of other and clears the container, which is not rebuilt
StatisticsAssignCollectable ==
    /\ call.op = "Statistics"
    /\ \E other \in Inputs :
        call' = [StatisticsObject EXCEPT
                    !.elements = other,
                    !.assigned = "collectable",
                    !.terminal = "operator="]
    /\ UNCHANGED <<stop, taskQueue, workers, wstate, joins, tasks, callers, terminated>>

\* clear(): the cache, the generator and the container are emptied
StatisticsClear ==
    /\ call.op = "Statistics"
    /\ call' = [StatisticsObject EXCEPT !.assigned = "clear", !.terminal = "clear"]
    /\ UNCHANGED <<stop, taskQueue, workers, wstate, joins, tasks, callers, terminated>>

NextStatistics ==
    \/ ToStatistics
    \/ StatisticsFrequency
    \/ StatisticsMode
    \/ StatisticsAssignElements
    \/ StatisticsAssignCollectable
    \/ StatisticsClear

SpecStatistics == Init /\ [][NextStatistics]_vars

(***************************************************************************)
(* A pipeline kept in a variable and its terminal operation called in      *)
(* later statements.  Every combinator captures this, the address of the   *)
(* Semantic it was called on: when the chain was written as one            *)
(* expression, the upstream Semantic objects were temporaries and are gone *)
(* at the end of the declaration; when every stage was given a name, they  *)
(* are alive.  from(vector) captures the vector by value.                  *)
(***************************************************************************)
HeldPipeline ==
    [op |-> "Held", pc |-> "built", source |-> Source("from", <<>>, 0, 0),
     stages |-> <<>>, named |-> TRUE, terminal |-> "none", runs |-> <<>>]

\* the lambda of the last stage calls (*this->generator)(...): is the
\* Semantic that this points to still there
UpstreamAlive(pipeline) == pipeline.named \/ pipeline.stages = <<>>

\* one call of toUnordered().toVector() or toUnordered().findFirst() with
\* concurrent < 2: what it returns and what the sources emitted for it
TerminalRun(name, source, stages) ==
    LET col == [name |-> name, pred |-> {}]
        down == RunGenerator(Sink("collect", col), source, stages)
    IN  [result |-> Finisher(col, down.st.result), visits |-> down.visits,
         out |-> down.out]

\* what a call through a dangling this can return, when it returns
DanglingResults == {v \in Inputs : Len(v) <= 1}

HoldPipeline ==
    /\ ~terminated
    /\ call.op = "none"
    /\ \E source \in Sources, stages \in Chains, named \in BOOLEAN :
        /\ source.kind \in {"from", "range"}
        /\ call' = [HeldPipeline EXCEPT !.source = source, !.stages = stages,
                                        !.named = named]
    /\ UNCHANGED <<stop, taskQueue, workers, wstate, joins, tasks, callers, terminated>>

\* the terminal operation, called a first and a second time
HeldTerminal ==
    /\ ~terminated
    /\ call.op = "Held" /\ call.pc = "built" /\ Len(call.runs) < 2
    /\ UpstreamAlive(call)
    /\ \E name \in {"toVector", "findFirst"} :
        /\ call.runs # <<>> => name = call.terminal
        /\ call' = [call EXCEPT !.terminal = name,
                      !.runs = Append(@, TerminalRun(name, call.source, call.stages))]
    /\ UNCHANGED <<stop, taskQueue, workers, wstate, joins, tasks, callers, terminated>>

\* the same call when the upstream Semantic is gone: undefined behaviour,
\* it returns something or brings the process down
HeldTerminalDangling ==
    /\ ~terminated
    /\ call.op = "Held" /\ call.pc = "built" /\ Len(call.runs) < 2
    /\ ~UpstreamAlive(call)
    /\ \E name \in {"toVector", "findFirst"} :
        /\ call.runs # <<>> => name = call.terminal
        /\ \/ /\ \E result \in DanglingResults :
                    call' = [call EXCEPT !.terminal = name,
                              !.runs = Append(@, [result |-> result,
                                                  visits |-> 0, out |-> <<>>])]
              /\ UNCHANGED terminated
           \/ /\ call' = [call EXCEPT !.terminal = name, !.pc = "faulted"]
              /\ terminated' = TRUE
    /\ UNCHANGED <<stop, taskQueue, workers, wstate, joins, tasks, callers>>

NextHeld ==
    \/ HoldPipeline
    \/ HeldTerminal
    \/ HeldTerminalDangling

SpecHeld == Init /\ [][NextHeld]_vars

(***************************************************************************)
(* Collector::collect(const Generator<E>&, concurrent) of semantic.h with  *)
(* concurrent >= 2: one std::async task per thread number, each running    *)
(* the whole generator into its own accumulator; the caller gets the       *)
(* futures in order and combines.                                          *)
(***************************************************************************)
AsyncCollectors == {[name |-> n, pred |-> {}] : n \in {"useCount", "useSummate"}}

\* the pipelines of semantic.h handed to the collector: a source and at
\* most one combinator
AsyncSources ==
    {Source("hfrom", elems, 0, 0) : elems \in Inputs}
        \cup {Source("hrange", <<>>, start, end) : start \in 0..1, end \in 0..MaxLen}

AsyncChains == {stages \in Chains : Len(stages) <= 1}

AsyncCall ==
    [op |-> "Async", pc |-> "getting", col |-> NoCollector,
     source |-> Source("hfrom", <<>>, 0, 0), stages |-> <<>>, k |-> 0,
     futures |-> <<>>, j |-> 0, combined |-> <<>>, accumulator |-> 0,
     finished |-> 0, result |-> 0, out |-> <<>>]

\* the task of one thread number, from identity() to return accumulator
AsyncTaskRun(col, source, stages, thread, concurrent) ==
    RunGenerator(TaskSink(col, thread, concurrent), source, stages)

\* futures.push_back(std::async(std::launch::async, ...)) for every thread
\* number, then A accumulator = this->identity()
AsyncBegin ==
    /\ ~terminated
    /\ call.op = "none"
    /\ \E col \in AsyncCollectors, source \in AsyncSources, stages \in AsyncChains,
          k \in 2..MaxK :
        call' = [AsyncCall EXCEPT !.col = col, !.source = source, !.stages = stages,
                    !.k = k,
                    !.futures = [thread \in 1..k |-> <<>>],
                    !.accumulator = HIdentity(col)]
    /\ UNCHANGED <<stop, taskQueue, workers, wstate, joins, tasks, callers, terminated>>

\* the task of a thread number runs to its end; its future becomes ready
AsyncTask ==
    /\ call.op = "Async"
    /\ \E thread \in 0..(call.k - 1) :
        /\ call.futures[thread + 1] = <<>>
        /\ LET down == AsyncTaskRun(call.col, call.source, call.stages, thread, call.k)
           IN  call' = [call EXCEPT !.futures[thread + 1] = <<down.st>>,
                                    !.out = down.out]
    /\ UNCHANGED <<stop, taskQueue, workers, wstate, joins, tasks, callers, terminated>>

\* A partial = future.get(); accumulator = this->combiner(accumulator, partial)
AsyncGet ==
    /\ call.op = "Async" /\ call.pc = "getting"
    /\ call.j < call.k
    /\ call.futures[call.j + 1] # <<>>
    /\ call' = [call EXCEPT
                    !.accumulator = HCombiner(call.col, @,
                                        call.futures[call.j + 1][1].accumulator),
                    !.combined = Append(@, call.j),
                    !.j = @ + 1]
    /\ UNCHANGED <<stop, taskQueue, workers, wstate, joins, tasks, callers, terminated>>

\* return this->finisher(accumulator)
AsyncReturn ==
    /\ call.op = "Async" /\ call.pc = "getting"
    /\ call.j = call.k
    /\ call' = [call EXCEPT !.pc = "returned",
                            !.finished = @ + 1,
                            !.result = HFinisher(call.col, call.accumulator)]
    /\ UNCHANGED <<stop, taskQueue, workers, wstate, joins, tasks, callers, terminated>>

NextAsync ==
    \/ AsyncBegin
    \/ AsyncTask
    \/ AsyncGet
    \/ AsyncReturn

SpecAsync == Init /\ [][NextAsync]_vars

(***************************************************************************)
(* Pipelines with takeWhile, whose interrupt depends on the element it is  *)
(* called with, over from(vector) and over split(stream, delimiter); the   *)
(* buffers between the delimiters stand for the stream.                    *)
(***************************************************************************)
ProbedSources ==
    {Source(kind, elems, 0, 0) : kind \in {"from", "split"}, elems \in Inputs}

ProbedStages ==
    {Stage("map", {}, 0, f, <<>>) : f \in {"times10", "plus1"}}
        \cup {Stage(op, p, 0, "", <<>>) : op \in {"takeWhile", "filter"},
                                          p \in SUBSET (Values \cup {10, 20})}
        \cup {Stage("limit", {}, n, "", <<>>) : n \in 0..MaxLen}
        \cup {Stage("concat", {}, 0, "", other) : other \in {<<1>>}}

ProbedChains ==
    {<<>>} \cup {<<first>> : first \in ProbedStages}
        \cup {<<first, second>> : first \in ProbedStages, second \in ProbedStages}

ProbedCall ==
    [op |-> "Probed", pc |-> "built", source |-> Source("from", <<>>, 0, 0),
     stages |-> <<>>, terminal |-> "none", result |-> <<>>, out |-> <<>>,
     trace |-> <<>>]

ProbedSource ==
    /\ ~terminated
    /\ call.op = "none"
    /\ \E source \in ProbedSources : call' = [ProbedCall EXCEPT !.source = source]
    /\ UNCHANGED <<stop, taskQueue, workers, wstate, joins, tasks, callers, terminated>>

ProbedStage ==
    /\ call.op = "Probed" /\ call.pc = "built"
    /\ \E stage \in ProbedStages :
        /\ Append(call.stages, stage) \in ProbedChains
        /\ call' = [call EXCEPT !.stages = Append(@, stage)]
    /\ UNCHANGED <<stop, taskQueue, workers, wstate, joins, tasks, callers, terminated>>

\* toUnordered().toVector() and toUnordered().findFirst(), concurrent < 2
ProbedTerminal ==
    /\ call.op = "Probed" /\ call.pc = "built"
    /\ \E name \in {"toVector", "findFirst"} :
        LET col == [name |-> name, pred |-> {}]
            down == IF call.source.kind = "split"
                    THEN RunSplitGenerator(Sink("collect", col), call.source, call.stages)
                    ELSE RunGenerator(Sink("collect", col), call.source, call.stages)
        IN  call' = [call EXCEPT !.pc = "returned", !.terminal = name,
                        !.result = Finisher(col, down.st.result),
                        !.out = down.out, !.trace = down.trace]
    /\ UNCHANGED <<stop, taskQueue, workers, wstate, joins, tasks, callers, terminated>>

NextProbed ==
    \/ ProbedSource
    \/ ProbedStage
    \/ ProbedTerminal

SpecProbed == Init /\ [][NextProbed]_vars

(***************************************************************************)
(* What the claims compare the code with.                                  *)
(***************************************************************************)
\* s_N of the fold s_0 = identity(), s_i = accumulator(s_(i-1), e_i)
RECURSIVE FoldAll(_, _, _)
FoldAll(col, elems, n) ==
    IF n = 0
    THEN IF col.name \in FullNames THEN Identity(col) ELSE HIdentity(col)
    ELSE IF col.name \in FullNames
         THEN Accumulator(col, FoldAll(col, elems, n - 1), elems[n])
         ELSE HAccumulator(col, FoldAll(col, elems, n - 1), elems[n], n - 1)

FinishedFold(col, elems) ==
    IF col.name \in FullNames
    THEN Finisher(col, FoldAll(col, elems, Len(elems)))
    ELSE HFinisher(col, FoldAll(col, elems, Len(elems)))

\* the meaning of anyMatch, allMatch and noneMatch
MatchTruth(col, elems) ==
    CASE col.name \in {"anyMatch", "useAnyMatch"} ->
            \E n \in 1..Len(elems) : elems[n] \in col.pred
      [] col.name \in {"allMatch", "useAllMatch"} ->
            \A n \in 1..Len(elems) : elems[n] \in col.pred
      [] col.name \in {"noneMatch", "useNoneMatch"} ->
            \A n \in 1..Len(elems) : elems[n] \notin col.pred

Accepted(t) == tasks[t].status = "queued"

(***************************************************************************)
(* C1: Collectable::collect with concurrency k >= 2 returns, for count,    *)
(* sum and set-union, the result that collect with concurrency 1 returns   *)
(* on the same elements.                                                   *)
(***************************************************************************)
C1_ParallelEqualsSequential ==
    (call.op = "Collectable" /\ call.pc = "returned" /\ call.k >= 2
        /\ call.col.name \in {"count", "sum", "toSet"})
    => call.result = CollectableSequential(call.col, call.withInterrupter, call.elems)

(***************************************************************************)
(* C2: anyMatch is true iff some element satisfies the predicate, allMatch *)
(* iff every element does, noneMatch iff no element does, in sequential    *)
(* mode and with concurrency k >= 2 under every interleaving.              *)
(***************************************************************************)
C2_MatchResults ==
    (call.pc = "returned" /\ call.col.name \in MatchNames \cup HMatchNames)
    => call.result = MatchTruth(call.col, call.elems)

(***************************************************************************)
(* C3: with concurrency k >= 2 OrderedCollectable::collect folds every     *)
(* element of the container in exactly one partition task and merges the   *)
(* partials in partition order, so toVector returns the timestamp-ordered  *)
(* sequence that concurrency 1 returns.                                    *)
(***************************************************************************)
C3_OrderedPartitions ==
    (call.op = "Ordered" /\ call.pc = "returned" /\ call.k >= 2
        /\ call.col.name \in FullNames)
    => /\ \A index \in 1..Len(call.elems) : Cardinality(call.visits[index]) = 1
       /\ call.col.name = "toVector" =>
            /\ call.result = call.elems
            /\ call.result = OrderedSequential(call.col, call.withInterrupter, call.elems)

\* a concurrent toVector has returned for a container whose size is not a
\* multiple of k
C3_Witness ==
    /\ call.op = "Ordered" /\ call.pc = "returned" /\ call.col.name = "toVector"
    /\ call.k = 2 /\ Len(call.elems) = 3
    /\ call.result = call.elems

(***************************************************************************)
(* C4: with concurrencyDegree < 2 every collect path returns               *)
(* finisher(s_N) for the fold s_0 = identity(), s_i = accumulator(s_(i-1), *)
(* e_i) over the elements in emission order.                               *)
(***************************************************************************)
C4_SequentialFinishedFold ==
    (call.pc = "returned" /\ call.k < 2 /\ call.col.name \in FullNames \cup HFullNames)
    => call.result = FinishedFold(call.col, call.elems)

(***************************************************************************)
(* C5: a closure accepted by ThreadPool::submit is never run on the        *)
(* submitting thread, never run twice and never popped by two workers.     *)
(***************************************************************************)
C5_ExecutedOnceByWorker ==
    \A t \in 1..Len(tasks) :
        Accepted(t) => /\ tasks[t].onSubmitter = 0
                       /\ tasks[t].onWorker <= 1
                       /\ tasks[t].pops <= 1

(***************************************************************************)
(* C6: a submit called after shutdown has set the stop flag fails, leaves  *)
(* the queue unchanged, and its task is never executed by any thread.      *)
(***************************************************************************)
C6_RefusedTaskNeverRuns ==
    \A t \in 1..Len(tasks) :
        tasks[t].stopAtCall => /\ ~Accepted(t)
                               /\ tasks[t].onSubmitter = 0
                               /\ tasks[t].onWorker = 0

(***************************************************************************)
(* C7: shutdown joins every worker at most once, whoever calls it and how  *)
(* often, and no shutdown call is left unfinished: the process does not    *)
(* end while a call is inside the join loop.                               *)
(***************************************************************************)
C7_ShutdownIdempotentReturns ==
    /\ \A w \in WorkerIds : joins[w] <= 1
    /\ terminated => \A c \in Callers : callers[c].pc # "join"

(***************************************************************************)
(* C8: every task enqueued by a successful submit is popped and executed   *)
(* by a worker: the workers do not stop for good while an accepted task    *)
(* has not been executed, and a worker exits only on stop.                 *)
(***************************************************************************)
C8_AcceptedTasksExecuted ==
    /\ \A w \in WorkerIds : wstate[w].pc = "exited" => stop
    /\ terminated => \A t \in 1..Len(tasks) : Accepted(t) => tasks[t].onWorker >= 1

(***************************************************************************)
(* C9: an exception thrown by a submitted task rejects the promise,        *)
(* getResult rethrows it, and no exception leaves the wrapper of such a    *)
(* task on the worker.                                                     *)
(***************************************************************************)
C9_TaskExceptionContained ==
    /\ \A t \in 1..Len(tasks) :
        tasks[t].kind = "throws" =>
            /\ tasks[t].promise.state = "rejected"
            /\ tasks[t].got \in {"none", "exception"}
    /\ \A w \in WorkerIds :
        wstate[w].pc = "escaped" => tasks[wstate[w].task].kind # "throws"

(***************************************************************************)
(* C10: Collectable::collect with k >= 2 returns only after all k          *)
(* partition tasks have resolved, and it does return: the process does not *)
(* end while the call is still in progress.                                *)
(***************************************************************************)
C10_CollectWaitsAndReturns ==
    (call.op = "Collectable" /\ call.k >= 2)
    => /\ call.pc = "returned" => call.completed = 0..(call.k - 1)
       /\ terminated => call.pc = "returned"

(***************************************************************************)
(* What the claims about pipelines compare the code with.                  *)
(***************************************************************************)
SourceElements(source) ==
    LET emissions == SourceEmissions(source)
    IN  [position \in 1..Len(emissions) |-> emissions[position].element]

Occurrences(seq, value) == Cardinality({position \in 1..Len(seq) : seq[position] = value})

IsPermutation(a, b) ==
    /\ Len(a) = Len(b)
    /\ \A position \in 1..Len(a) : Occurrences(a, a[position]) = Occurrences(b, a[position])

\* seq is in the order of the indexer (ascending when there is none)
InOrder(seq, indexer) ==
    \A position \in 1..(Len(seq) - 1) :
        IF indexer = "none" THEN seq[position] <= seq[position + 1]
        ELSE Indexer(indexer, seq[position], seq[position + 1]) <= 0

ReverseOf(seq) == [position \in 1..Len(seq) |-> seq[Len(seq) + 1 - position]]

\* seq[from + 1], ..., seq[to], empty when to <= from
Slice(seq, from, to) == [position \in 1..(IF to > from THEN to - from ELSE 0) |-> seq[from + position]]

Minimum(a, b) == IF a < b THEN a ELSE b

\* the entries of seq at the given positions, in ascending position order
AtPositions(seq, positions) ==
    [k \in 1..Cardinality(positions) |->
        seq[CHOOSE p \in positions : Cardinality({q \in positions : q <= p}) = k]]

PipelineReturned(terminal) ==
    call.op = "Semantic" /\ call.pc = "returned" /\ call.terminal = terminal

(***************************************************************************)
(* C11: for a source with default timestamps sorted().toVector() is the    *)
(* ascending permutation of the source elements and                        *)
(* sorted(comparator).toVector() the permutation ordered by the comparator.*)
(***************************************************************************)
C11_SortedIsOrderedPermutation ==
    (PipelineReturned("sorted") /\ call.stages = <<>>)
    => /\ IsPermutation(call.result, SourceElements(call.source))
       /\ InOrder(call.result, call.arg)

(***************************************************************************)
(* C12: for a source of N >= 0 elements with default timestamps            *)
(* reverse().toOrdered().toVector() returns the source elements in         *)
(* reversed emission order.                                                *)
(***************************************************************************)
C12_ReverseRoundTrip ==
    (PipelineReturned("toOrdered") /\ call.stages = <<Stage("reverse", {}, 0, "", <<>>)>>)
    => call.result = ReverseOf(SourceElements(call.source))

\* three elements, not all equal, have been reversed
C12_Witness ==
    /\ PipelineReturned("toOrdered")
    /\ call.stages = <<Stage("reverse", {}, 0, "", <<>>)>>
    /\ call.source.kind = "from" /\ call.source.elems = <<1, 2, 2>>
    /\ call.result = <<2, 2, 1>>

(***************************************************************************)
(* C13: skip(s).limit(l).toVector() in sequential mode is e_s ..           *)
(* e_(min(s+l, N)-1), empty when s >= N or l = 0, and no more than n       *)
(* elements reach the accept downstream of limit(n).                       *)
(***************************************************************************)
C13_SkipLimitBoundary ==
    /\ (PipelineReturned("toVector") /\ Len(call.stages) = 2
            /\ call.stages[1].op = "skip" /\ call.stages[2].op = "limit")
       => LET elems == SourceElements(call.source)
              s == call.stages[1].n
              l == call.stages[2].n
          IN  call.result = Slice(elems, s, Minimum(s + l, Len(elems)))
    /\ (call.op = "Semantic" /\ call.pc = "returned" /\ call.stages # <<>>
            /\ call.stages[Len(call.stages)].op = "limit")
       => Len(call.out) <= call.stages[Len(call.stages)].n

\* skip(1).limit(1) has cut the middle element out of three
C13_Witness ==
    /\ PipelineReturned("toVector")
    /\ call.stages = <<Stage("skip", {}, 1, "", <<>>), Stage("limit", {}, 1, "", <<>>)>>
    /\ call.source.kind = "range" /\ call.source.start = 0 /\ call.source.end = 3
    /\ call.result = <<1>>

(***************************************************************************)
(* C14: filter(p).map(f).toVector() in sequential mode is f(x) for the     *)
(* source elements x with p(x) in source order; filter calls accept only   *)
(* for elements satisfying p, with their timestamps unchanged, and hands   *)
(* the downstream interrupt upstream unchanged.                            *)
(***************************************************************************)
C14_FilterMapFusion ==
    /\ (PipelineReturned("toVector") /\ Len(call.stages) = 2
            /\ call.stages[1].op = "filter" /\ call.stages[2].op = "map")
       => LET kept == SelectSeq(SourceElements(call.source),
                                LAMBDA x : x \in call.stages[1].p)
          IN  call.result = [position \in 1..Len(kept) |->
                                Mapper(call.stages[2].f, kept[position])]
    /\ (PipelineReturned("toVector") /\ Len(call.stages) = 1
            /\ call.stages[1].op = "filter")
       => call.out = SelectSeq(SourceEmissions(call.source),
                               LAMBDA e : e.element \in call.stages[1].p)
    /\ (PipelineReturned("findFirst") /\ Len(call.stages) = 1
            /\ call.stages[1].op = "filter")
       => LET emissions == SourceEmissions(call.source)
              matches == {position \in 1..Len(emissions) :
                            emissions[position].element \in call.stages[1].p}
          IN  call.visits = IF matches = {} THEN Len(emissions)
                            ELSE CHOOSE m \in matches : \A o \in matches : m <= o

\* filter has dropped an element and map has changed the ones it kept
C14_Witness ==
    /\ PipelineReturned("toVector")
    /\ call.stages = <<Stage("filter", {2}, 0, "", <<>>), Stage("map", {}, 0, "times10", <<>>)>>
    /\ call.source.kind = "from" /\ call.source.elems = <<1, 2, 2>>
    /\ call.result = <<20, 20>>

(***************************************************************************)
(* C15: distinct() and distinct(identifier) emit exactly the first         *)
(* occurrence of every identity (the element, or the key the identifier    *)
(* derives from it), in order of first occurrence, with its timestamp.     *)
(***************************************************************************)
C15_DistinctFirstOccurrences ==
    (PipelineReturned("toVector") /\ Len(call.stages) = 1
        /\ call.stages[1].op \in {"distinct", "distinctBy"})
    => LET emissions == SourceEmissions(call.source)
           key(e) == IF call.stages[1].op = "distinct" THEN e.element
                     ELSE Identifier(call.stages[1].f, e.element, e.element)
           first == {position \in 1..Len(emissions) :
                        \A earlier \in 1..(position - 1) :
                            key(emissions[earlier]) # key(emissions[position])}
       IN  call.out = AtPositions(emissions, first)

\* a repeated element has been emitted once, before a later new one
C15_Witness ==
    /\ PipelineReturned("toVector")
    /\ call.stages = <<Stage("distinct", {}, 0, "", <<>>)>>
    /\ call.source.kind = "from" /\ call.source.elems = <<1, 1, 2>>
    /\ call.out = <<Emission(1, 0), Emission(2, 2)>>

(***************************************************************************)
(* C16: concat emits the N elements of this and then the M elements of the *)
(* other source with their timestamps offset by N, N + M pairwise distinct *)
(* timestamps in all, and toOrdered() re-materializes them in that order.  *)
(***************************************************************************)
C16_ConcatIndexContinuity ==
    (PipelineReturned("toOrdered") /\ Len(call.stages) = 1
        /\ call.stages[1].op = "concat")
    => LET this == SourceEmissions(call.source)
           other == FromVectorEmissions(call.stages[1].other)
       IN  /\ call.out = this \o [position \in 1..Len(other) |->
                            Emission(other[position].element,
                                     other[position].index + Len(this))]
           /\ \A a, b \in 1..Len(call.out) :
                a # b => call.out[a].index # call.out[b].index
           /\ call.result = SourceElements(call.source) \o call.stages[1].other

(***************************************************************************)
(* C17: every source adapter emits its N elements in construction order    *)
(* with the timestamps 0, 1, ..., N-1.                                     *)
(***************************************************************************)
C17_SourceTimestamps ==
    (call.op = "Semantic" /\ call.pc = "returned" /\ call.stages = <<>>
        /\ call.terminal \in {"toVector", "useJoin"})
    => LET elems == IF call.source.kind = "range"
                    THEN [position \in 1..(call.source.end - call.source.start) |->
                            call.source.start + position - 1]
                    ELSE call.source.elems
       IN  call.out = [position \in 1..Len(elems) |->
                        Emission(elems[position], position - 1)]

(***************************************************************************)
(* C18: constructing a chain of combinators visits no element of the       *)
(* source; only a terminal operation does.                                 *)
(***************************************************************************)
C18_LazyConstruction ==
    (call.op = "Semantic" /\ call.pc = "built") => call.visits = 0

\* a two-stage chain over a non-empty source has been built
C18_Witness ==
    /\ call.op = "Semantic" /\ call.pc = "built"
    /\ Len(call.stages) = 2 /\ Len(SourceEmissions(call.source)) = 3
    /\ call.visits = 0

(***************************************************************************)
(* C19: toWindow().tumble(size) over N ordered elements yields             *)
(* ceil(N/size) windows of size consecutive elements each, the last one    *)
(* holding the remainder.                                                  *)
(***************************************************************************)
C19_TumblingWindows ==
    PipelineReturned("tumble")
    => LET ordered == ContainerElements(call.container)
           size == call.arg
           windows == (Len(ordered) + size - 1) \div size
       IN  call.result = [w \in 1..windows |->
                Slice(ordered, (w - 1) * size, Minimum(w * size, Len(ordered)))]

(***************************************************************************)
(* C20: in sequential mode findFirst returns the first element the         *)
(* pipeline emits, whatever its timestamp, and an empty optional exactly   *)
(* when the pipeline emits nothing.                                        *)
(***************************************************************************)
C20_FindFirst ==
    (call.op = "Semantic" /\ call.pc = "returned"
        /\ call.terminal \in {"findFirst", "useFindFirst"})
    => LET emitted == RunGenerator(Sink("elements", NoCollector),
                                   call.source, call.stages).out
       IN  call.result = IF emitted = <<>> THEN <<>> ELSE <<emitted[1].element>>


(***************************************************************************)
(* C21: on a non-empty sequence findFirst and findAny return a value, and  *)
(* the value is an element of the sequence, with concurrency 1 and with    *)
(* concurrency k >= 2 under every interleaving, sizes below k included.    *)
(***************************************************************************)
C21_FindReturnsAnElement ==
    (call.op \in {"Collectable", "Ordered"} /\ call.pc = "returned"
        /\ call.col.name \in {"findFirst", "findAny"} /\ call.elems # <<>>)
    => /\ Len(call.result) = 1
       /\ \E index \in 1..Len(call.elems) : call.result[1] = call.elems[index]

(***************************************************************************)
(* C22: after any sequence of frequency and mode calls, reassignments of   *)
(* the elements and clear(), frequency(mapper) returns the value-to-count  *)
(* mapping of mapper over the current elements: a memoized result is never *)
(* returned for other elements or for another mapper.                      *)
(***************************************************************************)
ValueCounts(mapper, elems) ==
    [d \in {Mapper(mapper, elems[position]) : position \in 1..Len(elems)} |->
        Cardinality({position \in 1..Len(elems) : Mapper(mapper, elems[position]) = d})]

C22_FrequencyOfCurrentElements ==
    (call.op = "Statistics" /\ call.terminal = "frequency")
    => call.result = ValueCounts(call.arg, call.elements)

(***************************************************************************)
(* C23: a terminal operation called twice on the same pipeline over an     *)
(* in-memory source runs the whole chain from the source both times and    *)
(* returns the same result both times.                                     *)
(***************************************************************************)
C23_TerminalTwice ==
    (call.op = "Held" /\ Len(call.runs) = 2)
    => /\ call.runs[2].result = call.runs[1].result
       /\ call.runs[2].visits = call.runs[1].visits
       /\ call.runs[2].out = call.runs[1].out
       /\ call.runs[2] = TerminalRun(call.terminal, call.source, call.stages)

(***************************************************************************)
(* C24: in Collector::collect over a generator with concurrency N >= 2     *)
(* every task starts from identity() and accumulates exactly the emitted   *)
(* elements whose timestamp mod N is its number, so each emitted element,  *)
(* also one with a negative or shifted timestamp, is accumulated by        *)
(* exactly one task; a partial is combined only when its future is ready,  *)
(* the call returns only when all N are combined, the finisher is applied  *)
(* once, and count and sum equal the sequential fold.                      *)
(***************************************************************************)
\* the accumulator Collector::collect returns with concurrent < 2
SequentialCollect(col, source, stages) ==
    RunGenerator(Sink("collector", col), source, stages).st

RECURSIVE FoldSum(_, _)
FoldSum(out, positions) ==
    IF positions = {} THEN 0
    ELSE LET position == CHOOSE n \in positions : TRUE
         IN  out[position].element + FoldSum(out, positions \ {position})

\* the mathematical residue of a 64-bit two's complement timestamp read as
\* unsigned; 2^64 = 18446744073709551616 leaves 1 modulo 3 and 0 modulo 2, 4
UnsignedResidue(index, concurrent) ==
    IF index >= 0 THEN index % concurrent
    ELSE CASE concurrent = 3 -> ((index % 3) + 1) % 3
           [] concurrent = 5 -> ((index % 5) + 1) % 5
           [] OTHER -> index % concurrent

MaxCalls == 2

MaterializedSources ==
    {Source("from", elems, 0, 0) : elems \in Inputs}
        \cup {Source("fill", <<>>, 0, count) : count \in 0..MaxLen}

MaterializedStages ==
    {Stage("reverse", {}, 0, "", <<>>),
     Stage("translate", {}, MaxLen, "", <<>>),
     Stage("shuffle", {}, 0, "modulo2", <<>>),
     Stage("limit", {}, 1, "", <<>>)}

MaterializedChains == {<<>>} \cup {<<first>> : first \in MaterializedStages}

MaterializedCall ==
    [op |-> "Materialized", pc |-> "built", source |-> Source("from", <<>>, 0, 0),
     stages |-> <<>>, concurrent |-> 1, supplied |-> 0, traversals |-> 0,
     emitted |-> 0, container |-> {}, results |-> <<>>]

\* the calls of the supplier one traversal makes: one per test of the interrupt
SupplierCalls(source, down) ==
    IF source.kind = "fill"
    THEN Cardinality({n \in 1..Len(down.trace) : down.trace[n].kind = "interrupt"})
    ELSE 0

\* one invocation of the generator by toIndexedSet
Traverse(current) ==
    RunGenerator(Sink("indexedSet", NoCollector),
                 [current.source EXCEPT !.start = current.supplied], current.stages)

\* toIndexedSet: one traversal if concurrent < 2, else one per task, each
\* into its localContainer; the partial containers are inserted into one
\* container, which arrange then maps
RECURSIVE Materialize(_, _, _)
Materialize(current, remaining, merged) ==
    IF remaining = 0
    THEN [current EXCEPT !.container = ArrangeContainer(merged)]
    ELSE LET down == Traverse(current)
         IN  Materialize([current EXCEPT
                            !.supplied = @ + SupplierCalls(current.source, down),
                            !.traversals = @ + 1,
                            !.emitted = IF current.traversals = 0
                                        THEN Len(down.out) ELSE @],
                         remaining - 1, merged \cup down.st)

\* OrderedCollectable(generator, concurrent): container = toIndexedSet()
OrderedCollectableConstruct(current, concurrent) ==
    [Materialize([current EXCEPT !.concurrent = concurrent],
                 IF concurrent < 2 THEN 1 ELSE concurrent, {})
        EXCEPT !.pc = "constructed"]

\* the submit loop of OrderedCollectable::collect with concurrent >= 2
RECURSIVE OrderedPartials(_, _, _, _, _, _)
OrderedPartials(col, elements, concurrent, i, flag, partials) ==
    IF i = concurrent THEN [flag |-> flag, partials |-> partials]
    ELSE LET run == OrderedPartition(WithFound(col, flag), TRUE, elements, concurrent, i)
         IN  OrderedPartials(col, elements, concurrent, i + 1,
                             flag \/ run.interrupted, Append(partials, run.result))

\* its merge loop: combiner, then break when the flag is set
RECURSIVE OrderedMerged(_, _, _, _, _)
OrderedMerged(col, partials, j, finalResult, flag) ==
    IF j > Len(partials) THEN finalResult
    ELSE LET merged == Combiner(col, finalResult, partials[j])
         IN  IF flag THEN merged
             ELSE OrderedMerged(col, partials, j + 1, merged, flag)

\* collect(identity, interrupter, accumulator, combiner, finisher) over the
\* container
OrderedCollect(col, container, concurrent) ==
    IF concurrent < 2
    THEN OrderedSequential(col, TRUE, ContainerElements(container))
    ELSE LET ran == OrderedPartials(col, ContainerElements(container), concurrent,
                                    0, FALSE, <<>>)
         IN  Finisher(col, OrderedMerged(col, ran.partials, 1, Identity(col), ran.flag))

\* count() is container.size(); toVector() and findFirst() are collect
TerminalValue(name, container, concurrent) ==
    IF name = "count" THEN Cardinality(container)
    ELSE OrderedCollect([name |-> name, pred |-> {}, found |-> FALSE],
                        container, concurrent)

\* a terminal that builds the container again before it reads it
OrderedTerminalCall_Regenerate(current, name) ==
    LET again == Materialize(current, IF current.concurrent < 2 THEN 1
                                      ELSE current.concurrent, {})
    IN  [again EXCEPT !.results = Append(@, [name |-> name,
            value |-> TerminalValue(name, again.container, again.concurrent)])]

\* a terminal method called on the OrderedCollectable
OrderedTerminalCall(current, name) ==
    [current EXCEPT !.results = Append(@, [name |-> name,
        value |-> TerminalValue(name, current.container, current.concurrent)])]

MaterializedSource ==
    /\ ~terminated
    /\ call.op = "none"
    /\ \E source \in MaterializedSources :
            call' = [MaterializedCall EXCEPT !.source = source]
    /\ UNCHANGED <<stop, taskQueue, workers, wstate, joins, tasks, callers, terminated>>

MaterializedStage ==
    /\ call.op = "Materialized" /\ call.pc = "built"
    /\ \E stage \in MaterializedStages :
        /\ Append(call.stages, stage) \in MaterializedChains
        /\ call' = [call EXCEPT !.stages = Append(@, stage)]
    /\ UNCHANGED <<stop, taskQueue, workers, wstate, joins, tasks, callers, terminated>>

\* auto ordered = <pipeline>.toOrdered();
ToOrdered ==
    /\ call.op = "Materialized" /\ call.pc = "built"
    /\ \E concurrent \in 1..MaxK :
        /\ call.source.kind = "fill" => concurrent < 2
        /\ call' = OrderedCollectableConstruct(call, concurrent)
    /\ UNCHANGED <<stop, taskQueue, workers, wstate, joins, tasks, callers, terminated>>

\* ordered.count(), ordered.toVector(), ordered.findFirst()
OrderedTerminal ==
    /\ call.op = "Materialized" /\ call.pc = "constructed"
    /\ Len(call.results) < MaxCalls
    /\ \E name \in {"count", "toVector", "findFirst"} :
            call' = OrderedTerminalCall(call, name)
    /\ UNCHANGED <<stop, taskQueue, workers, wstate, joins, tasks, callers, terminated>>

NextMaterialized ==
    \/ MaterializedSource
    \/ MaterializedStage
    \/ ToOrdered
    \/ OrderedTerminal

SpecMaterialized == Init /\ [][NextMaterialized]_vars

(***************************************************************************)
(* Pipelines that end in flatMap: a source, at most one combinator, then   *)
(* flatMap(mapper), run by toUnordered().toVector() or .findFirst().       *)
(***************************************************************************)
FlatMappers == {"range", "tail", "reversed"}

FlatUpstream ==
    {Stage("reverse", {}, 0, "", <<>>)}
        \cup {Stage("filter", p, 0, "", <<>>) : p \in SUBSET Values}
        \cup {Stage("limit", {}, n, "", <<>>) : n \in 0..MaxLen}

FlatStages == FlatUpstream \cup {Stage("flatMap", {}, 0, f, <<>>) : f \in FlatMappers}

FlatChains ==
    {<<>>} \cup {<<first>> : first \in FlatStages}
        \cup {<<first, Stage("flatMap", {}, 0, f, <<>>)>> :
                    first \in FlatUpstream, f \in FlatMappers}

FlatCall ==
    [op |-> "Flat", pc |-> "built", source |-> Source("from", <<>>, 0, 0),
     stages |-> <<>>, terminal |-> "none", result |-> <<>>, out |-> <<>>]

FlatSource ==
    /\ ~terminated
    /\ call.op = "none"
    /\ \E elems \in Inputs :
            call' = [FlatCall EXCEPT !.source = Source("from", elems, 0, 0)]
    /\ UNCHANGED <<stop, taskQueue, workers, wstate, joins, tasks, callers, terminated>>

FlatStage ==
    /\ call.op = "Flat" /\ call.pc = "built"
    /\ \E stage \in FlatStages :
        /\ Append(call.stages, stage) \in FlatChains
        /\ call' = [call EXCEPT !.stages = Append(@, stage)]
    /\ UNCHANGED <<stop, taskQueue, workers, wstate, joins, tasks, callers, terminated>>

\* the generator handed to collect and the lambdas it ends in
FlatRun(col, source, stages) ==
    IF stages # <<>> /\ stages[Len(stages)].op = "flatMap"
    THEN LET down == RunGenerator(FlatMapSink(stages[Len(stages)].f, col), source,
                                  SubSeq(stages, 1, Len(stages) - 1))
         IN  [result |-> down.st.collect.result, out |-> down.st.accepted]
    ELSE LET down == RunGenerator(Sink("collect", col), source, stages)
         IN  [result |-> down.st.result, out |-> down.out]

\* toUnordered().toVector() and toUnordered().findFirst(), concurrent < 2
FlatTerminal ==
    /\ call.op = "Flat" /\ call.pc = "built"
    /\ \E name \in {"toVector", "findFirst"} :
        LET col == [name |-> name, pred |-> {}]
            ran == FlatRun(col, call.source, call.stages)
        IN  call' = [call EXCEPT !.pc = "returned", !.terminal = name,
                        !.result = Finisher(col, ran.result), !.out = ran.out]
    /\ UNCHANGED <<stop, taskQueue, workers, wstate, joins, tasks, callers, terminated>>

NextFlat ==
    \/ FlatSource
    \/ FlatStage
    \/ FlatTerminal

SpecFlat == Init /\ [][NextFlat]_vars

(***************************************************************************)
(* C25: map(fn) hands every upstream element to the downstream accept as   *)
(* fn(element) with its timestamp unchanged, and the downstream interrupt  *)
(* is only ever called with mapped values fn(element), never with an       *)
(* upstream element.                                                       *)
(***************************************************************************)
C25_MapInterruptOnMappedValues ==
    (call.op = "Probed" /\ call.pc = "returned" /\ call.source.kind = "from"
        /\ call.stages # <<>> /\ call.stages[1].op = "map")
    => LET emitted == FromVectorEmissions(call.source.elems)
           mapped == {Mapper(call.stages[1].f, emitted[position].element) :
                        position \in 1..Len(emitted)}
       IN  /\ Len(call.stages) = 1 /\ call.terminal = "toVector" =>
                call.out = [position \in 1..Len(emitted) |->
                                Emission(Mapper(call.stages[1].f, emitted[position].element),
                                         emitted[position].index)]
           /\ \A n \in 1..Len(call.trace) :
                call.trace[n].kind = "interrupt" => call.trace[n].element \in mapped

(***************************************************************************)
(* C27: every generator calls accept at most once per element and, once    *)
(* the interrupt has returned true for an element, makes no call of accept *)
(* for the elements after it, whatever the interrupt would return for them.*)
(***************************************************************************)
C27_NoAcceptAfterInterrupt ==
    (call.op = "Probed" /\ call.pc = "returned")
    => /\ \A m \in 1..Len(call.trace), n \in 1..Len(call.trace) :
            (m < n /\ call.trace[m].kind = "interrupt" /\ call.trace[m].value)
                => call.trace[n].kind # "accept"
       /\ \A n \in 1..(Len(call.trace) - 1) :
            call.trace[n].kind = "accept" => call.trace[n + 1].kind # "accept"

(***************************************************************************)
(* C26: when a pipeline of N >= 1 elements is materialized by toOrdered()  *)
(* or by sorted(), every timestamp stored in the container lies in [0, N), *)
(* whatever the timestamps of the pipeline were: 0, multiples of N,        *)
(* negative ones made by reverse, ones >= N made by translate.             *)
(***************************************************************************)
C26_TimestampsNormalized ==
    (call.op = "Semantic" /\ call.pc = "returned"
        /\ call.terminal \in {"toOrdered", "sorted"} /\ Len(call.out) >= 1)
    => \A pair \in call.container : pair[1] >= 0 /\ pair[1] < Len(call.out)

(***************************************************************************)
(* C28: an OrderedCollectable runs its generator at construction, once     *)
(* when concurrent < 2, and never again: a terminal called on the object   *)
(* (count, toVector, findFirst) leaves the container, the number of        *)
(* traversals and the state of the source as they were and returns what    *)
(* the stored container gives, so that two calls of the same terminal      *)
(* return the same value even when the source is a supplier with state.    *)
(***************************************************************************)
C28_SingleMaterialization ==
    [][(call.op = "Materialized" /\ call.pc = "constructed")
        => /\ call.concurrent < 2 => call.traversals = 1
           /\ call'.op = "Materialized" =>
                /\ call'.container = call.container
                /\ call'.traversals = call.traversals
                /\ call'.supplied = call.supplied
                /\ \A m \in 1..Len(call'.results), n \in 1..Len(call'.results) :
                        call'.results[m].name = call'.results[n].name
                            => call'.results[m].value = call'.results[n].value]_vars

\* fill(supplier, 1).toOrdered() holds the element of the first call of the
\* supplier and toVector() has returned it twice
C28_Witness ==
    /\ call.op = "Materialized" /\ call.pc = "constructed"
    /\ call.source.kind = "fill" /\ call.source.end = 1 /\ call.stages = <<>>
    /\ call.traversals = 1 /\ call.supplied = 1
    /\ call.results = <<[name |-> "toVector", value |-> <<Supplier(0)>>],
                        [name |-> "toVector", value |-> <<Supplier(0)>>]>>

(***************************************************************************)
(* C30: materializing a pipeline into an OrderedCollectable neither loses  *)
(* nor duplicates elements: the container holds as many pairs as the       *)
(* generator emitted elements, count() returns that number and toVector()  *)
(* a vector of that length, whatever the timestamps and the element values *)
(* are, with concurrent < 2 and with one traversal per task.               *)
(***************************************************************************)
C30_MaterializationKeepsEveryElement ==
    (call.op = "Materialized" /\ call.pc = "constructed")
    => /\ Cardinality(call.container) = call.emitted
       /\ \A n \in 1..Len(call.results) :
            /\ call.results[n].name = "count" => call.results[n].value = call.emitted
            /\ call.results[n].name = "toVector" =>
                    Len(call.results[n].value) = call.emitted

\* the elements of the pipelines mapper(element), one upstream element
\* after the other
RECURSIVE Flattened(_, _)
Flattened(f, upstream) ==
    IF upstream = <<>> THEN <<>>
    ELSE LET inner == InnerEmissions(f, Head(upstream)[2])
         IN  [position \in 1..Len(inner) |-> inner[position].element]
                \o Flattened(f, Tail(upstream))

(***************************************************************************)
(* C29: flatMap(fn) emits, for each upstream element in upstream order,    *)
(* the elements of fn(element) in their order, with the timestamps 0, 1,   *)
(* 2, ... of one counter over all inner pipelines, whatever the upstream   *)
(* and the inner timestamps are; a terminal that interrupts (findFirst)    *)
(* receives a prefix of that sequence.                                     *)
(***************************************************************************)
C29_FlatMapSingleCounter ==
    (call.op = "Flat" /\ call.pc = "returned"
        /\ call.stages # <<>> /\ call.stages[Len(call.stages)].op = "flatMap")
    => LET upstream == RunGenerator(Sink("elements", NoCollector), call.source,
                                    SubSeq(call.stages, 1, Len(call.stages) - 1)).st
           elements == Flattened(call.stages[Len(call.stages)].f, upstream)
       IN  /\ Len(call.out) <= Len(elements)
           /\ call.terminal = "toVector" => Len(call.out) = Len(elements)
           /\ \A n \in 1..Len(call.out) : call.out[n] = Emission(elements[n], n - 1)

\* from({2, 1}).reverse().flatMap(x -> range(0, x)).toVector() has received
\* 0, 1, 0 with the timestamps 0, 1, 2
C29_Witness ==
    /\ call.op = "Flat" /\ call.pc = "returned" /\ call.terminal = "toVector"
    /\ call.source.elems = <<2, 1>>
    /\ call.stages = <<Stage("reverse", {}, 0, "", <<>>),
                       Stage("flatMap", {}, 0, "range", <<>>)>>
    /\ call.out = <<Emission(0, 0), Emission(1, 1), Emission(0, 2)>>

=============================================================================
